---------------------------- MODULE Spec2Model ----------------------------
(***************************************************************************)
(* A model of the SecondBrain services: the Hippocampus memory engine      *)
(* (chunker, vector store, BM25 text index, hybrid fusion), the Cortex     *)
(* orchestrator (reasoning stream, context enrichment, sessions, metrics), *)
(* its OpenAI-compatible HTTP facade and the gateway's webhook queue.      *)
(*                                                                         *)
(* Encodings.  A text is a sequence of one-character strings, so that      *)
(* strings.Fields, tokenize and splitSentences are computed on characters. *)
(* A Go map[string]string is a function whose domain is its key set; a     *)
(* missing key reads as "" (Get).  A float score is a fixed-point integer  *)
(* in units of 1/ScoreOne.  uuid.New() is a value never handed out before: *)
(* Uuid(k) for a counter k.                                                *)
(***************************************************************************)
EXTENDS Integers, Sequences, FiniteSets, TLC

VARIABLES
    ck,           \* FixedSizeChunker.Chunk: the locals of one call
    cfg,          \* HippocampusServer.cfg
    collections,  \* InMemoryStore.collections: collection -> chunk id -> Record
    docs,         \* textindex.Index.docs: key -> indexedDoc
    docChunks,    \* HippocampusServer.docChunks: document id -> chunk ids
    lastIndexed,  \* HippocampusServer.lastIndexed (0 is the zero time)
    nextUuid,     \* how many uuids uuid.New() has handed out
    resp,         \* the call the memory engine served last, and its response
    wiring,       \* CortexServer: whether frontalClient and memoryClient are set
    cx,           \* CortexServer.StreamThoughtProcess: where the handler is, its locals
    received,     \* the inbound messages the handler has received on the stream
    sent,         \* the outputs the handler has sent to the caller, in order
    sessions,     \* session.Manager.sessions: session id -> Session
    metricsRecords, \* metrics.Store.records
    down,         \* the streams opened to the reasoning engine, and their traffic
    memCalls,     \* the calls made on memoryClient, in order
    metricsCounts, \* metrics.Store.totalInteractions and feedbackCounts
    appended,     \* every entry handed to AddEpisodicMemory, by session, in call order
    http,         \* openaicompat.Handler: one chat-completions request and its response
    gw,           \* webhook.Handler: itemChan, and what was enqueued and received
    kg,           \* graph.KnowledgeGraph, and the last Query made and what it returned
    storeCalls,   \* the calls made on the vector store and the text index, in order
    rpc,          \* the gRPC server of cortex main: the RPC served last, and whether the process lives
    mcp,          \* mcpserver.Server: the request served last and its response
    conc          \* the goroutines of a concurrent run, where each stands, and the locks they hold

vars == <<ck, cfg, collections, docs, docChunks, lastIndexed, nextUuid, resp,
          wiring, cx, received, sent, sessions, metricsRecords, down, memCalls,
          metricsCounts, appended, http, gw, kg, storeCalls, rpc, mcp, conc>>

cortexVars == <<wiring, cx, received, sent, sessions, metricsRecords, down, memCalls,
                metricsCounts>>

memVars == <<cfg, collections, docs, docChunks, lastIndexed, nextUuid, resp>>

engineVars == <<ck, cfg, collections, docs, docChunks, lastIndexed, nextUuid, resp>>

sideVars == <<kg, storeCalls, rpc, mcp, conc>>

edgeVars == <<appended, http, gw, sideVars>>

-----------------------------------------------------------------------------
(* Bounds of the model *)

\* longest text, in words, handed to the fixed-size chunker on its own
MaxWords == 4
\* largest chunk_size / chunk_overlap configuration explored for the chunker
MaxChunkSize == 3
\* iterations of the chunker loop after which a run is cut off
MaxChunkIters == 6

-----------------------------------------------------------------------------
(* Go values *)

EmptyMap == [k \in {} |-> <<>>]

\* m[k] of a Go map: the zero value "" when the key is missing
Get(m, k) == IF k \in DOMAIN m THEN m[k] ELSE <<>>

MapPut(m, k, v) == [x \in (DOMAIN m) \cup {k} |-> IF x = k THEN v ELSE m[x]]

MapDelete(m, k) == [x \in (DOMAIN m) \ {k} |-> m[x]]

Range(s) == {s[i] : i \in DOMAIN s}

Min(a, b) == IF a < b THEN a ELSE b

\* the string of uuid.New(), for the k-th uuid handed out
Uuid(k) == <<"u", ToString(k)>>

IsSpace(c) == c \in {" ", "\n", "\t"}

RECURSIVE FieldsAcc(_, _, _)
FieldsAcc(text, cur, acc) ==
    IF text = <<>> THEN (IF cur = <<>> THEN acc ELSE Append(acc, cur))
    ELSE IF IsSpace(Head(text))
         THEN FieldsAcc(Tail(text), <<>>, IF cur = <<>> THEN acc ELSE Append(acc, cur))
         ELSE FieldsAcc(Tail(text), Append(cur, Head(text)), acc)

\* strings.Fields: the maximal runs of non-space characters
Fields(text) == FieldsAcc(text, <<>>, <<>>)

RECURSIVE Join(_, _)
\* strings.Join
Join(parts, sep) ==
    IF parts = <<>> THEN <<>>
    ELSE IF Len(parts) = 1 THEN parts[1]
    ELSE parts[1] \o sep \o Join(Tail(parts), sep)

Letters == <<"a", "b", "c", "d", "t", "u", "x", "y">>

Capitals == <<"A", "B", "C", "D", "T", "U", "X", "Y">>

Digits == {"0", "1", "2", "3", "4", "5", "6", "7", "8", "9"}

\* strings.ToLower, on the letters the model's texts use
ToLowerChar(c) ==
    IF \E i \in DOMAIN Capitals : Capitals[i] = c
    THEN Letters[CHOOSE i \in DOMAIN Capitals : Capitals[i] = c]
    ELSE c

ToLower(text) == [i \in DOMAIN text |-> ToLowerChar(text[i])]

\* strings.ToUpper
ToUpperChar(c) ==
    IF \E i \in DOMAIN Letters : Letters[i] = c
    THEN Capitals[CHOOSE i \in DOMAIN Letters : Letters[i] = c]
    ELSE c

ToUpper(text) == [i \in DOMAIN text |-> ToUpperChar(text[i])]

RECURSIVE TrimLeft(_)
TrimLeft(text) ==
    IF text # <<>> /\ IsSpace(Head(text)) THEN TrimLeft(Tail(text)) ELSE text

RECURSIVE TrimRight(_)
TrimRight(text) ==
    IF text # <<>> /\ IsSpace(text[Len(text)])
    THEN TrimRight(SubSeq(text, 1, Len(text) - 1)) ELSE text

\* strings.TrimSpace
TrimSpace(text) == TrimRight(TrimLeft(text))

\* strings.HasPrefix
HasPrefix(text, prefix) ==
    Len(text) >= Len(prefix) /\ SubSeq(text, 1, Len(prefix)) = prefix

RECURSIVE SplitAcc(_, _, _, _)
SplitAcc(text, sep, cur, acc) ==
    IF text = <<>> THEN Append(acc, cur)
    ELSE IF Head(text) = sep THEN SplitAcc(Tail(text), sep, <<>>, Append(acc, cur))
    ELSE SplitAcc(Tail(text), sep, Append(cur, Head(text)), acc)

\* strings.Split(text, sep) for a one-character separator
Split(text, sep) == SplitAcc(text, sep, <<>>, <<>>)

\* words[start:end] with Go's 0-based half-open bounds
Slice(s, start, end) == SubSeq(s, start + 1, end)

-----------------------------------------------------------------------------
(* chunker.FixedSizeChunker *)

copyMetadata(m) == m

\* entry of Chunk up to the first evaluation of the loop condition
FixedChunkEnter(c, documentID, text, metadata, uuidBase) ==
    LET words == Fields(text)
    IN  [pc |-> IF text = <<>> \/ Len(words) = 0 THEN "done"
                ELSE IF 0 < Len(words) THEN "loop" ELSE "done",
         ChunkSize |-> c.ChunkSize, Overlap |-> c.Overlap,
         documentID |-> documentID, text |-> text, metadata |-> metadata,
         uuidBase |-> uuidBase,
         words |-> words, start |-> 0, end |-> 0, index |-> 0, chunks |-> <<>>]

\* one iteration of `for start < len(words)`, up to the next evaluation of the
\* loop condition; words[start:end] panics when start is negative
FixedChunkIter(k) ==
    LET end0 == k.start + k.ChunkSize
        end  == IF end0 > Len(k.words) THEN Len(k.words) ELSE end0
    IN  IF k.start < 0 \/ k.start > end
        THEN [k EXCEPT !.pc = "panic", !.end = end, !.chunks = <<>>]
        ELSE
          LET chunk == [ID |-> Uuid(k.uuidBase + Len(k.chunks)),
                        DocumentID |-> k.documentID,
                        Content |-> Join(Slice(k.words, k.start, end), <<" ">>),
                        Index |-> k.index,
                        Metadata |-> copyMetadata(k.metadata)]
              start == end - k.Overlap
              brk   == start <= start - k.ChunkSize + k.Overlap /\ end = Len(k.words)
          IN  [k EXCEPT !.chunks = Append(k.chunks, chunk),
                        !.end = end,
                        !.start = start,
                        !.index = IF brk THEN k.index ELSE k.index + 1,
                        !.pc = IF brk THEN "done"
                               ELSE IF start < Len(k.words) THEN "loop" ELSE "done"]

RECURSIVE FixedChunkRun(_, _)
\* the loop run to its end; a call still looping after `fuel` iterations never
\* returns (every returning call makes at most len(words) iterations)
FixedChunkRun(k, fuel) ==
    IF k.pc # "loop" THEN k
    ELSE IF fuel = 0 THEN [k EXCEPT !.pc = "diverge", !.chunks = <<>>]
    ELSE FixedChunkRun(FixedChunkIter(k), fuel - 1)

\* FixedSizeChunker.Chunk as a whole: [pc, chunks]
FixedSizeChunkerChunk(c, documentID, text, metadata, uuidBase) ==
    LET k == FixedChunkRun(FixedChunkEnter(c, documentID, text, metadata, uuidBase),
                           Len(Fields(text)) + 1)
    IN  [pc |-> k.pc, chunks |-> k.chunks]

-----------------------------------------------------------------------------
(* chunker.SemanticChunker, chunker.HierarchicalChunker, chunker.NewStrategy *)

RECURSIVE SplitSentencesAcc(_, _, _)
SplitSentencesAcc(text, cur, acc) ==
    IF text = <<>>
    THEN (IF TrimSpace(cur) # <<>> THEN Append(acc, TrimSpace(cur)) ELSE acc)
    ELSE LET cur1 == Append(cur, Head(text))
         IN  IF Head(text) \in {".", "!", "?"}
             THEN SplitSentencesAcc(Tail(text), <<>>,
                      IF TrimSpace(cur1) # <<>> THEN Append(acc, TrimSpace(cur1)) ELSE acc)
             ELSE SplitSentencesAcc(Tail(text), cur1, acc)

splitSentences(text) == SplitSentencesAcc(text, <<>>, <<>>)

NewChunk(id, documentID, content, index, metadata) ==
    [ID |-> id, DocumentID |-> documentID, Content |-> content, Index |-> index,
     Metadata |-> copyMetadata(metadata)]

\* a loop that emits a chunk and goes on with the sentences it has emitted
RECURSIVE SemanticPackKeeping(_, _, _, _, _, _, _)
SemanticPackKeeping(sentences, current, currentSize, chunks, max, documentID, mu) ==
    IF sentences = <<>>
    THEN IF Len(current) > 0
         THEN Append(chunks, NewChunk(Uuid(mu.base + Len(chunks)), documentID,
                                      Join(current, <<" ">>), Len(chunks), mu.metadata))
         ELSE chunks
    ELSE LET sentence  == Head(sentences)
             sentWords == Len(Fields(sentence))
         IN  IF currentSize + sentWords > max /\ Len(current) > 0
             THEN SemanticPackKeeping(Tail(sentences), Append(current, sentence), sentWords,
                      Append(chunks, NewChunk(Uuid(mu.base + Len(chunks)), documentID,
                                  Join(current, <<" ">>), Len(chunks), mu.metadata)),
                      max, documentID, mu)
             ELSE SemanticPackKeeping(Tail(sentences), Append(current, sentence),
                      currentSize + sentWords, chunks, max, documentID, mu)

RECURSIVE SemanticPack(_, _, _, _, _, _, _)
\* the loop over the sentences and the flush of the last chunk
SemanticPack(sentences, current, currentSize, chunks, max, documentID, mu) ==
    IF sentences = <<>>
    THEN IF Len(current) > 0
         THEN Append(chunks, NewChunk(Uuid(mu.base + Len(chunks)), documentID,
                                      Join(current, <<" ">>), Len(chunks), mu.metadata))
         ELSE chunks
    ELSE LET sentence  == Head(sentences)
             sentWords == Len(Fields(sentence))
         IN  IF currentSize + sentWords > max /\ Len(current) > 0
             THEN SemanticPack(Tail(sentences), <<sentence>>, sentWords,
                      Append(chunks, NewChunk(Uuid(mu.base + Len(chunks)), documentID,
                                  Join(current, <<" ">>), Len(chunks), mu.metadata)),
                      max, documentID, mu)
             ELSE SemanticPack(Tail(sentences), Append(current, sentence),
                      currentSize + sentWords, chunks, max, documentID, mu)

\* SemanticChunker.Chunk: the list of chunks
SemanticChunkerChunk(MaxChunkSizeCfg, documentID, text, metadata, uuidBase) ==
    IF text = <<>> \/ splitSentences(text) = <<>> THEN <<>>
    ELSE SemanticPack(splitSentences(text), <<>>, 0, <<>>, MaxChunkSizeCfg, documentID,
                      [base |-> uuidBase, metadata |-> metadata])

IsHeader(line) ==
    LET trimmed == TrimSpace(line)
    IN  HasPrefix(trimmed, <<"#">>)
        \/ (Len(trimmed) > 0 /\ trimmed = ToUpper(trimmed) /\ Len(trimmed) > 3)

RECURSIVE SplitSectionsAcc(_, _, _)
SplitSectionsAcc(lines, current, sections) ==
    IF lines = <<>>
    THEN (IF Len(current) > 0 THEN Append(sections, Join(current, <<"\n">>)) ELSE sections)
    ELSE IF IsHeader(Head(lines)) /\ Len(current) > 0
         THEN SplitSectionsAcc(Tail(lines), <<Head(lines)>>,
                               Append(sections, Join(current, <<"\n">>)))
         ELSE SplitSectionsAcc(Tail(lines), Append(current, Head(lines)), sections)

splitSections(text) == SplitSectionsAcc(Split(text, "\n"), <<>>, <<>>)

RECURSIVE HierarchicalPack(_, _, _, _, _)
HierarchicalPack(sections, chunks, max, documentID, mu) ==
    IF sections = <<>> THEN chunks
    ELSE LET section == TrimSpace(Head(sections))
         IN  IF section = <<>>
             THEN HierarchicalPack(Tail(sections), chunks, max, documentID, mu)
             ELSE IF Len(Fields(section)) <= max
             THEN HierarchicalPack(Tail(sections),
                      Append(chunks, NewChunk(Uuid(mu.base + Len(chunks)), documentID,
                                              section, Len(chunks), mu.metadata)),
                      max, documentID, mu)
             ELSE LET sub == SemanticChunkerChunk(max, documentID, section, mu.metadata,
                                                  mu.base + Len(chunks))
                  IN  HierarchicalPack(Tail(sections),
                          chunks \o [i \in DOMAIN sub |->
                                       [sub[i] EXCEPT !.Index = Len(chunks) + i - 1]],
                          max, documentID, mu)

\* HierarchicalChunker.Chunk: the list of chunks
HierarchicalChunkerChunk(MaxChunkSizeCfg, documentID, text, metadata, uuidBase) ==
    IF text = <<>> THEN <<>>
    ELSE HierarchicalPack(splitSections(text), <<>>, MaxChunkSizeCfg, documentID,
                          [base |-> uuidBase, metadata |-> metadata])

\* NewStrategy(name, chunkSize, overlap).Chunk(documentID, text, metadata): [pc, chunks]
StrategyChunk(name, chunkSize, overlap, documentID, text, metadata, uuidBase) ==
    CASE name = "semantic" ->
           [pc |-> "done",
            chunks |-> SemanticChunkerChunk(chunkSize, documentID, text, metadata, uuidBase)]
      [] name = "hierarchical" ->
           [pc |-> "done",
            chunks |-> HierarchicalChunkerChunk(chunkSize, documentID, text, metadata, uuidBase)]
      [] OTHER ->
           FixedSizeChunkerChunk([ChunkSize |-> chunkSize, Overlap |-> overlap],
                                 documentID, text, metadata, uuidBase)

-----------------------------------------------------------------------------
(* Orderings and scores *)

\* 1.0 in the fixed-point unit of the scores
ScoreOne == 10000

RECURSIVE Perms(_)
\* every sequence that lists the elements of S once
Perms(S) ==
    IF S = {} THEN {<<>>}
    ELSE UNION {{<<x>> \o p : p \in Perms(S \ {x})} : x \in S}

RECURSIVE SortDesc(_)
\* the outcomes of sort.Slice(results, score descending): the sort is not
\* stable and the input order is a map's iteration order, so ties fall anyhow
SortDesc(S) ==
    IF S = {} THEN {<<>>}
    ELSE UNION {{<<x>> \o p : p \in SortDesc(S \ {x})} :
                x \in {y \in S : \A z \in S : y.score >= z.score}}

\* results[:n]
Take(s, n) == SubSeq(s, 1, Min(n, Len(s)))

RECURSIVE SumSeq(_)
SumSeq(s) == IF s = <<>> THEN 0 ELSE Head(s) + SumSeq(Tail(s))

RECURSIVE SqrtSearch(_, _, _)
SqrtSearch(x, lo, hi) ==
    IF lo >= hi THEN lo
    ELSE LET mid == (lo + hi + 1) \div 2
         IN  IF mid * mid <= x THEN SqrtSearch(x, mid, hi) ELSE SqrtSearch(x, lo, mid - 1)

\* floor of math.Sqrt on integers
ISqrt(x) == SqrtSearch(x, 0, Min(x, 46340))

-----------------------------------------------------------------------------
(* vectorstore.InMemoryStore *)

\* cosineSimilarity, in units of 1/ScoreOne
cosineSimilarity(a, b) ==
    IF Len(a) # Len(b) THEN 0
    ELSE LET dot   == SumSeq([i \in DOMAIN a |-> a[i] * b[i]])
             normA == SumSeq([i \in DOMAIN a |-> a[i] * a[i]])
             normB == SumSeq([i \in DOMAIN a |-> b[i] * b[i]])
             denom == ISqrt(normA * normB * ScoreOne * ScoreOne)
         IN  IF denom = 0 THEN 0 ELSE (dot * ScoreOne * ScoreOne) \div denom

RECURSIVE PutRecords(_, _)
PutRecords(coll, records) ==
    IF records = <<>> THEN coll
    ELSE PutRecords(MapPut(coll, Head(records).ID, Head(records)), Tail(records))

\* an Upsert that keeps the record an id already has
StoreUpsertKeepsOld(colls, collection, records) ==
    LET coll == IF collection \in DOMAIN colls THEN colls[collection] ELSE EmptyMap
        put  == PutRecords(coll, records)
    IN  MapPut(colls, collection,
               [i \in DOMAIN put |-> IF i \in DOMAIN coll THEN coll[i] ELSE put[i]])

\* InMemoryStore.Upsert: the collections afterwards
StoreUpsert(colls, collection, records) ==
    LET coll == IF collection \in DOMAIN colls THEN colls[collection] ELSE EmptyMap
    IN  MapPut(colls, collection, PutRecords(coll, records))

\* the `if filters != nil` block of InMemoryStore.Search
PayloadMatches(payload, filters) ==
    \A k \in DOMAIN filters : Get(payload, k) = filters[k]

\* InMemoryStore.Search: the hit lists the call can return
StoreSearch(colls, collection, vector, topK, filters) ==
    IF collection \notin DOMAIN colls THEN {<<>>}
    ELSE LET coll   == colls[collection]
             scored == {[id |-> id,
                         score |-> cosineSimilarity(vector, coll[id].Vector),
                         payload |-> coll[id].Payload] :
                        id \in {i \in DOMAIN coll : PayloadMatches(coll[i].Payload, filters)}}
         IN  {[i \in 1..Min(topK, Len(p)) |->
                 [ID |-> p[i].id, Score |-> p[i].score, Payload |-> p[i].payload]] :
              p \in SortDesc(scored)}

\* InMemoryStore.Delete: the collections afterwards and the number removed
StoreDelete(colls, collection, ids) ==
    IF collection \notin DOMAIN colls THEN [collections |-> colls, deleted |-> 0]
    ELSE LET coll == colls[collection]
             gone == Range(ids) \cap DOMAIN coll
         IN  [collections |-> MapPut(colls, collection,
                                     [i \in (DOMAIN coll) \ gone |-> coll[i]]),
              deleted |-> Cardinality(gone)]

\* InMemoryStore.Count
StoreCount(colls, collection) ==
    IF collection \in DOMAIN colls THEN Cardinality(DOMAIN colls[collection]) ELSE 0

-----------------------------------------------------------------------------
(* textindex.Index *)

\* the "\x00" that separates collection and id in a key
NUL == "NUL"

IsAlnum(c) == (\E i \in DOMAIN Letters : Letters[i] = c) \/ c \in Digits

RECURSIVE FieldsFuncAcc(_, _, _)
FieldsFuncAcc(text, cur, acc) ==
    IF text = <<>> THEN (IF cur = <<>> THEN acc ELSE Append(acc, cur))
    ELSE IF ~IsAlnum(Head(text))
         THEN FieldsFuncAcc(Tail(text), <<>>, IF cur = <<>> THEN acc ELSE Append(acc, cur))
         ELSE FieldsFuncAcc(Tail(text), Append(cur, Head(text)), acc)

\* tokenize: lowercase, split on every character outside [a-z0-9]
tokenize(text) == FieldsFuncAcc(ToLower(text), <<>>, <<>>)

\* termFrequency
termFrequency(terms) ==
    [t \in Range(terms) |-> Cardinality({i \in DOMAIN terms : terms[i] = t})]

IndexKey(collection, id) == collection \o <<NUL>> \o id

\* Index.Add: the docs afterwards
IndexAdd(d, collection, doc) ==
    MapPut(d, IndexKey(collection, doc.ID),
           [id |-> doc.ID, content |-> doc.Content, metadata |-> doc.Metadata,
            terms |-> termFrequency(tokenize(doc.Content)),
            length |-> Len(tokenize(doc.Content))])

\* Index.Delete
IndexDelete(d, collection, id) == MapDelete(d, IndexKey(collection, id))

\* matchFilters
matchFilters(metadata, filters) ==
    \A k \in DOMAIN filters : Get(metadata, k) = filters[k]

\* the documents whose BM25 score is > 0: every idf is positive
\* (log of a number > 1) and every term's share is >= 0, so the score is
\* positive exactly when the document holds one of the query's terms
ScoresPositive(doc, queryTerms) ==
    \E i \in DOMAIN queryTerms : queryTerms[i] \in DOMAIN doc.terms

\* the normalized scores a ranking of n hits can carry: the top one is 1.0,
\* the others are <= their predecessor (two levels stand for the BM25 reals)
NormalizedScores(n) ==
    {[i \in 1..n |-> IF i <= k THEN ScoreOne ELSE ScoreOne \div 2] : k \in 1..n}

\* Index.Search: the hit lists the call can return.  The BM25 reals are not
\* computed: the ranking is any order of the scoring documents
IndexSearch(d, collection, query, topK, filters) ==
    LET queryTerms == tokenize(query)
        collDocs   == {key \in DOMAIN d : HasPrefix(key, collection \o <<NUL>>)}
        results    == {key \in collDocs :
                         /\ matchFilters(d[key].metadata, filters)
                         /\ ScoresPositive(d[key], queryTerms)}
    IN  IF Len(queryTerms) = 0 \/ collDocs = {} THEN {<<>>}
        ELSE IF results = {} THEN {<<>>}
        ELSE {[i \in 1..Min(topK, Len(p)) |->
                 [ID |-> d[p[i]].id, Score |-> sc[i],
                  Content |-> d[p[i]].content, Metadata |-> d[p[i]].metadata]] :
              p \in Perms(results), sc \in NormalizedScores(Cardinality(results))}

\* Index.Count
IndexCount(d, collection) ==
    Cardinality({key \in DOMAIN d : HasPrefix(key, collection \o <<NUL>>)})

-----------------------------------------------------------------------------
(* hybrid: reciprocal rank fusion *)

\* the default of k
RRFDefaultK == 60

\* 1.0, 0.05 and 0.02 in the unit of the scores
WeightOne == ScoreOne
BonusTop == 500
BonusNext == 200

RECURSIVE RRFList(_, _, _, _, _)
\* the inner loop `for rank, result := range list` that accumulates the scores
RRFList(list, rank, weight, k, acc) ==
    IF list = <<>> THEN acc
    ELSE LET result   == Head(list)
             rrfScore == weight \div (k + rank + 1)
             entry    ==
                 IF result.ID \in DOMAIN acc
                 THEN LET existing == acc[result.ID]
                      IN  IF rank + 1 < existing.bestRank
                          THEN [existing EXCEPT !.score = @ + rrfScore,
                                                !.bestRank = rank + 1,
                                                !.content = result.Content,
                                                !.metadata = result.Metadata]
                          ELSE [existing EXCEPT !.score = @ + rrfScore]
                 ELSE [id |-> result.ID, score |-> rrfScore, content |-> result.Content,
                       metadata |-> result.Metadata, bestRank |-> rank + 1]
         IN  RRFList(Tail(list), rank + 1, weight, k, MapPut(acc, result.ID, entry))

RECURSIVE RRFLists(_, _, _, _, _)
\* the outer loop `for listIdx, list := range rankedLists`
RRFLists(rankedLists, listIdx, weights, k, acc) ==
    IF listIdx >= Len(rankedLists) THEN acc
    ELSE LET weight == IF listIdx < Len(weights) THEN weights[listIdx + 1] ELSE WeightOne
         IN  RRFLists(rankedLists, listIdx + 1, weights, k,
                      RRFList(rankedLists[listIdx + 1], 0, weight, k, acc))

RECURSIVE BonusList(_, _, _)
\* the top-rank bonus over one list
BonusList(list, rank, acc) ==
    IF list = <<>> THEN acc
    ELSE LET id    == Head(list).ID
             bonus == IF rank = 0 THEN BonusTop ELSE IF rank <= 2 THEN BonusNext ELSE 0
             next  == IF id \in DOMAIN acc
                      THEN MapPut(acc, id, [acc[id] EXCEPT !.score = @ + bonus])
                      ELSE acc
         IN  BonusList(Tail(list), rank + 1, next)

RECURSIVE BonusLists(_, _, _)
BonusLists(rankedLists, listIdx, acc) ==
    IF listIdx >= Len(rankedLists) THEN acc
    ELSE BonusLists(rankedLists, listIdx + 1, BonusList(rankedLists[listIdx + 1], 0, acc))

\* an RRFDocs that takes the top-rank bonus from the first list only
RRFDocsFirstListBonus(rankedLists, weights, k) ==
    LET k1 == IF k <= 0 THEN RRFDefaultK ELSE k
        w  == IF Len(weights) = 0 THEN [i \in 1..Len(rankedLists) |-> WeightOne] ELSE weights
    IN  BonusLists(Take(rankedLists, 1), 0, RRFLists(rankedLists, 0, w, k1, EmptyMap))

\* the map `docs` of ReciprocalRankFusion before the sort
RRFDocs(rankedLists, weights, k) ==
    LET k1 == IF k <= 0 THEN RRFDefaultK ELSE k
        w  == IF Len(weights) = 0 THEN [i \in 1..Len(rankedLists) |-> WeightOne] ELSE weights
    IN  BonusLists(rankedLists, 0, RRFLists(rankedLists, 0, w, k1, EmptyMap))

\* ReciprocalRankFusion: the fused lists the call can return
ReciprocalRankFusion(rankedLists, weights, k) ==
    LET fusedDocs == RRFDocs(rankedLists, weights, k)
    IN  {[i \in 1..Len(p) |->
            [ID |-> p[i].id, Score |-> p[i].score,
             Content |-> p[i].content, Metadata |-> p[i].metadata]] :
         p \in SortDesc(Range(fusedDocs))}

RECURSIVE MaxScore(_)
MaxScore(results) ==
    IF Len(results) = 1 THEN results[1].Score
    ELSE LET m == MaxScore(Tail(results))
         IN  IF results[1].Score > m THEN results[1].Score ELSE m

\* a NormalizeScores that hands its input back
NormalizeScoresSkipped(results) == results

\* NormalizeScores
NormalizeScores(results) ==
    IF Len(results) = 0 THEN results
    ELSE LET maxScore == MaxScore(results)
         IN  IF maxScore <= 0 THEN results
             ELSE [i \in 1..Len(results) |->
                     [results[i] EXCEPT !.Score = (results[i].Score * ScoreOne) \div maxScore]]

-----------------------------------------------------------------------------
(* HippocampusServer: what one call does to the server and what it returns.
   A server s is the record of cfg, collections (the vector store), docs (the
   text index), docChunks, lastIndexed and nextUuid.  A call gives
   [returns, s, resp]: returns is FALSE when the handler never comes back. *)

\* the top_k a search uses when the request gives none
DefaultTopK == 5

\* the fusion weights of HybridSearch: 2.0 for BM25, 1.0 for the vectors
HybridWeights == <<2 * WeightOne, WeightOne>>

strategyMap(strategy) ==
    CASE strategy = "SEMANTIC" -> "semantic"
      [] strategy = "HIERARCHICAL" -> "hierarchical"
      [] OTHER -> "fixed"

\* chunkDocument: [pc, chunks] of the strategy's Chunk
chunkDocument(s, docID, content, strategy, reqMetadata, uuidBase) ==
    StrategyChunk(strategyMap(strategy), s.cfg.ChunkSize, s.cfg.ChunkOverlap,
                  docID, content, MapPut(reqMetadata, "document_id", docID), uuidBase)

\* the records storeChunkVectors builds
ChunkRecords(docID, chunks, embeddings) ==
    [i \in 1..Len(chunks) |->
        [ID |-> chunks[i].ID, Vector |-> embeddings[i],
         Payload |-> MapPut(MapPut(chunks[i].Metadata, "content", chunks[i].Content),
                            "document_id", docID)]]

\* an indexError that reports the failure as a success
indexErrorAsSuccess(docID, message) ==
    [err |-> "OK", DocumentId |-> docID, Success |-> TRUE, ErrorMessage |-> message,
     ChunksCreated |-> 0]

indexError(docID, message) ==
    [err |-> "OK", DocumentId |-> docID, Success |-> FALSE, ErrorMessage |-> message,
     ChunksCreated |-> 0]

\* the docID of IndexDocument and the first uuid left for the chunker
IndexDocID(s, req) == IF req.DocumentId = <<>> THEN Uuid(s.nextUuid) ELSE req.DocumentId

IndexUuidBase(s, req) == IF req.DocumentId = <<>> THEN s.nextUuid + 1 ELSE s.nextUuid

IndexChunking(s, req) ==
    chunkDocument(s, IndexDocID(s, req), req.Content, req.ChunkingStrategy, req.Metadata,
                  IndexUuidBase(s, req))

\* a failed IndexDocument that writes on the way out (what the handler must not do)
IndexFailureStamped(s, docID, message) ==
    [returns |-> TRUE,
     s |-> [s EXCEPT !.lastIndexed = @ + 1,
                     !.docChunks = MapPut(s.docChunks, docID, <<>>)],
     resp |-> indexError(docID, message)]

\* `return indexError(docID, message), nil`: the server is left as it is
IndexFailure(s, docID, message) ==
    [returns |-> TRUE, s |-> s, resp |-> indexError(docID, message)]

\* IndexDocument with the embedder answering emb = [ok, vectors] and the
\* store's Upsert succeeding or not
IndexDocumentCall(s, req, emb, upsertOk) ==
    LET docID   == IndexDocID(s, req)
        base    == IndexUuidBase(s, req)
        content == req.Content
        run     == IndexChunking(s, req)
        chunks  == run.chunks
        s1      == [s EXCEPT !.nextUuid = base + Len(chunks)]
        records == ChunkRecords(docID, chunks, emb.vectors)
        chunkIDs == [i \in 1..Len(chunks) |-> chunks[i].ID]
    IN  IF content = <<>>
        THEN IndexFailure([s EXCEPT !.nextUuid = base], docID, "content is empty")
        ELSE IF run.pc # "done"
        THEN [returns |-> FALSE, s |-> s, resp |-> indexError(docID, run.pc)]
        ELSE IF Len(chunks) = 0
        THEN IndexFailure(s1, docID, "no chunks generated")
        ELSE IF ~emb.ok
        THEN IndexFailure(s1, docID, "embedding error")
        ELSE IF ~upsertOk
        THEN IndexFailure(s1, docID, "vector store error")
        ELSE [returns |-> TRUE,
              s |-> [s1 EXCEPT
                       !.collections = StoreUpsert(s.collections, s.cfg.CollectionName, records),
                       !.docChunks = MapPut(s.docChunks, docID, chunkIDs),
                       !.lastIndexed = s.lastIndexed + 1,
                       !.docs = IndexAdd(s.docs, s.cfg.CollectionName,
                                         [ID |-> docID, Content |-> content,
                                          Metadata |-> req.Metadata])],
              resp |-> [err |-> "OK", DocumentId |-> docID, Success |-> TRUE,
                        ErrorMessage |-> "", ChunksCreated |-> Len(chunks)]]

\* GetStats: the counters it reads from the server (the knowledge graph's
\* triple count is not among the fields IndexDocument can reach)
GetStats(s) ==
    [TotalDocuments |-> Cardinality(DOMAIN s.docChunks),
     TotalChunks |-> StoreCount(s.collections, s.cfg.CollectionName),
     LastIndexedAt |-> s.lastIndexed]

\* DeleteDocument with the store's Delete succeeding or not
DeleteDocumentCall(s, req, deleteOk) ==
    LET chunkIDs == Get(s.docChunks, req.DocumentId)
        s1       == [s EXCEPT !.docChunks = MapDelete(s.docChunks, req.DocumentId)]
        del      == StoreDelete(s.collections, s.cfg.CollectionName, chunkIDs)
        deleted  == IF Len(chunkIDs) > 0 THEN del.deleted ELSE 0
        colls    == IF Len(chunkIDs) > 0 THEN del.collections ELSE s.collections
    IN  IF Len(chunkIDs) > 0 /\ ~deleteOk
        THEN [returns |-> TRUE, s |-> s1,
              resp |-> [err |-> "Internal", Success |-> FALSE, ChunksDeleted |-> 0]]
        ELSE [returns |-> TRUE,
              s |-> [s1 EXCEPT !.collections = colls,
                               !.docs = IndexDelete(s.docs, s.cfg.CollectionName,
                                                    req.DocumentId)],
              resp |-> [err |-> "OK", Success |-> TRUE, ChunksDeleted |-> deleted]]

\* a search whose default top_k is 10 rather than 5
SearchTopKTen(req) == IF req.TopK <= 0 THEN 2 * DefaultTopK ELSE req.TopK

\* topK of the three searches
SearchTopK(req) == IF req.TopK <= 0 THEN DefaultTopK ELSE req.TopK

\* the loop that drops the results under min_score
MinScoreFilter(req, results) ==
    LET Keep(r) == ~(req.MinScore > 0 /\ r.Score < req.MinScore)
    IN  SelectSeq(results, Keep)

SearchError(code) == [err |-> code, Results |-> <<>>, ftsList |-> <<>>, vecList |-> <<>>]

\* SemanticSearch: the responses the call can give
SemanticSearchCall(s, req, emb, searchOk) ==
    IF req.Query = <<>> THEN {SearchError("InvalidArgument")}
    ELSE IF ~emb.ok \/ ~searchOk THEN {SearchError("Internal")}
    ELSE {[err |-> "OK", ftsList |-> <<>>, vecList |-> <<>>,
           Results |-> MinScoreFilter(req,
               [i \in 1..Len(hits) |->
                   [ChunkId |-> hits[i].ID,
                    DocumentId |-> Get(hits[i].Payload, "document_id"),
                    Content |-> Get(hits[i].Payload, "content"),
                    Score |-> hits[i].Score, Metadata |-> hits[i].Payload]])] :
          hits \in StoreSearch(s.collections, s.cfg.CollectionName, emb.vectors[1],
                               SearchTopK(req), req.Filters)}

\* FullTextSearch: the responses the call can give
FullTextSearchCall(s, req) ==
    IF req.Query = <<>> THEN {SearchError("InvalidArgument")}
    ELSE {[err |-> "OK", ftsList |-> <<>>, vecList |-> <<>>,
           Results |-> MinScoreFilter(req,
               [i \in 1..Len(hits) |->
                   [ChunkId |-> <<>>, DocumentId |-> hits[i].ID, Content |-> hits[i].Content,
                    Score |-> hits[i].Score, Metadata |-> hits[i].Metadata]])] :
          hits \in IndexSearch(s.docs, s.cfg.CollectionName, req.Query,
                               SearchTopK(req), req.Filters)}

\* the vecList of HybridSearch: the vector hits as ranked results
VecList(vecHits) ==
    [i \in 1..Len(vecHits) |->
        [ID |-> Get(vecHits[i].Payload, "document_id"), Score |-> vecHits[i].Score,
         Content |-> Get(vecHits[i].Payload, "content"), Metadata |-> vecHits[i].Payload]]

\* the tail of HybridSearch: fuse, normalize, truncate, drop under min_score
HybridFuse(req, ftsList, vecList) ==
    {MinScoreFilter(req,
        LET cut == Take(NormalizeScores(fused), SearchTopK(req))
        IN  [i \in 1..Len(cut) |->
                [ChunkId |-> <<>>, DocumentId |-> cut[i].ID, Content |-> cut[i].Content,
                 Score |-> cut[i].Score, Metadata |-> cut[i].Metadata]]) :
     fused \in ReciprocalRankFusion(<<ftsList, vecList>>, HybridWeights, RRFDefaultK)}

\* HybridSearch: the responses the call can give; ftsList and vecList are the
\* handler's two component lists
HybridSearchCall(s, req, emb, searchOk) ==
    IF req.Query = <<>> THEN {SearchError("InvalidArgument")}
    ELSE IF ~emb.ok \/ ~searchOk THEN {SearchError("Internal")}
    ELSE UNION {UNION {{[err |-> "OK", ftsList |-> ftsList, vecList |-> VecList(vecHits),
                         Results |-> results] :
                        results \in HybridFuse(req, ftsList, VecList(vecHits))} :
                       vecHits \in StoreSearch(s.collections, s.cfg.CollectionName,
                                               emb.vectors[1], SearchTopK(req) * 2,
                                               req.Filters)} :
                ftsList \in IndexSearch(s.docs, s.cfg.CollectionName, req.Query,
                                        SearchTopK(req) * 2, req.Filters)}

\* the texts the chunker is run on: n words, and the texts without a word
WordsText(n) == Join([i \in 1..n |-> <<"a">>], <<" ">>)

ChunkerTexts == {WordsText(n) : n \in 0..MaxWords} \cup {<<" ">>}

ChunkerConfigs ==
    {[ChunkSize |-> s, Overlap |-> o] : s \in 1..MaxChunkSize, o \in 0..MaxChunkSize}

NoCall == [pc |-> "idle"]

\* metrics.NewStore: the counters of an empty store
NewStore == [totalInteractions |-> 0, feedbackCounts |-> [k \in {} |-> 0]]

\* Store.Record on the counters: totalInteractions++ and, for a record that
\* carries feedback, feedbackCounts[rec.Feedback]++
StoreRecord(store, rec) ==
    LET counts == store.feedbackCounts
        old    == IF rec.Feedback \in DOMAIN counts THEN counts[rec.Feedback] ELSE 0
    IN  [totalInteractions |-> store.totalInteractions + 1,
         feedbackCounts |-> IF rec.Feedback # ""
                            THEN MapPut(counts, rec.Feedback, old + 1)
                            ELSE counts]

\* a call FixedSizeChunker.Chunk("doc-1", text, nil)
ChunkCall ==
    /\ ck.pc \in {"idle", "done", "panic"}
    /\ \E c \in ChunkerConfigs, text \in ChunkerTexts :
         ck' = FixedChunkEnter(c, <<"d", "1">>, text, EmptyMap, 0)
    /\ UNCHANGED memVars
    /\ UNCHANGED cortexVars
    /\ UNCHANGED edgeVars

ChunkIter ==
    /\ ck.pc = "loop"
    /\ Len(ck.chunks) < MaxChunkIters
    /\ ck' = FixedChunkIter(ck)
    /\ UNCHANGED memVars
    /\ UNCHANGED cortexVars
    /\ UNCHANGED edgeVars

\* no stream has been opened on the orchestrator
CortexIdle ==
    /\ wiring = [frontal |-> FALSE, memory |-> FALSE]
    /\ cx = [pc |-> "idle"]
    /\ received = <<>>
    /\ sent = <<>>
    /\ sessions = EmptyMap
    /\ metricsRecords = <<>>
    /\ down = <<>>
    /\ memCalls = <<>>
    /\ metricsCounts = NewStore

MemIdle ==
    /\ cfg = [CollectionName |-> <<"t">>, ChunkSize |-> 2, ChunkOverlap |-> 0]
    /\ collections = EmptyMap
    /\ docs = EmptyMap
    /\ docChunks = EmptyMap
    /\ lastIndexed = 0
    /\ nextUuid = 0
    /\ resp = [op |-> "none"]

\* no knowledge graph, no call on the store
SideIdle ==
    /\ conc = [pc |-> "idle"]
    /\ mcp = [pc |-> "idle"]
    /\ rpc = [pc |-> "idle"]
    /\ storeCalls = <<>>
    /\ kg = [pc |-> "idle"]

\* no session log, no chat-completions request, no webhook
EdgeIdle ==
    /\ SideIdle
    /\ appended = EmptyMap
    /\ http = [pc |-> "idle"]
    /\ gw = [pc |-> "idle"]

InitChunker ==
    /\ ck = NoCall
    /\ MemIdle
    /\ CortexIdle
    /\ EdgeIdle

NextChunker == ChunkCall \/ ChunkIter

SpecChunker == InitChunker /\ [][NextChunker]_vars

-----------------------------------------------------------------------------
(* The memory engine: the calls of HippocampusServer, taken one at a time *)

\* uuids handed out before the model stops indexing
MaxUuid == 2

\* the embeddings the embedder can answer with
Vectors == {<<1, 0>>, <<0, 1>>}

\* Embedder.Embed on n texts: an error, or one vector for each text
EmbedOutcomes(n) ==
    {[ok |-> FALSE, vectors |-> <<>>]} \cup
    {[ok |-> TRUE, vectors |-> v] : v \in [1..n -> Vectors]}

ServerState ==
    [cfg |-> cfg, collections |-> collections, docs |-> docs, docChunks |-> docChunks,
     lastIndexed |-> lastIndexed, nextUuid |-> nextUuid]

\* the server's fields after a call
Install(s) ==
    /\ collections' = s.collections
    /\ docs' = s.docs
    /\ docChunks' = s.docChunks
    /\ lastIndexed' = s.lastIndexed
    /\ nextUuid' = s.nextUuid

\* a call's response, with the call it answers
Reply(op, req, r) ==
    [k \in (DOMAIN r) \cup {"op", "req"} |->
        IF k = "op" THEN op ELSE IF k = "req" THEN req ELSE r[k]]

IndexDocument(req) ==
    \E emb \in EmbedOutcomes(Len(IndexChunking(ServerState, req).chunks)),
       upsertOk \in BOOLEAN :
        LET call == IndexDocumentCall(ServerState, req, emb, upsertOk)
        IN  /\ call.returns
            /\ call.s.nextUuid <= MaxUuid
            /\ Install(call.s)
            /\ resp' = Reply("IndexDocument", req, call.resp)
            /\ UNCHANGED <<ck, cfg>>
            /\ UNCHANGED cortexVars
            /\ UNCHANGED edgeVars

DeleteDocument(req) ==
    \E deleteOk \in BOOLEAN :
        LET call == DeleteDocumentCall(ServerState, req, deleteOk)
        IN  /\ Install(call.s)
            /\ resp' = Reply("DeleteDocument", req, call.resp)
            /\ UNCHANGED <<ck, cfg>>
            /\ UNCHANGED cortexVars
            /\ UNCHANGED edgeVars

SemanticSearch(req) ==
    \E emb \in EmbedOutcomes(1), searchOk \in BOOLEAN :
        \E r \in SemanticSearchCall(ServerState, req, emb, searchOk) :
            /\ resp' = Reply("SemanticSearch", req, r)
            /\ UNCHANGED <<ck, cfg, collections, docs, docChunks, lastIndexed, nextUuid>>
        /\ UNCHANGED cortexVars
        /\ UNCHANGED edgeVars

FullTextSearch(req) ==
    \E r \in FullTextSearchCall(ServerState, req) :
        /\ resp' = Reply("FullTextSearch", req, r)
        /\ UNCHANGED <<ck, cfg, collections, docs, docChunks, lastIndexed, nextUuid>>
        /\ UNCHANGED cortexVars
        /\ UNCHANGED edgeVars

HybridSearch(req) ==
    \E emb \in EmbedOutcomes(1), searchOk \in BOOLEAN :
        \E r \in HybridSearchCall(ServerState, req, emb, searchOk) :
            /\ resp' = Reply("HybridSearch", req, r)
            /\ UNCHANGED <<ck, cfg, collections, docs, docChunks, lastIndexed, nextUuid>>
        /\ UNCHANGED cortexVars
        /\ UNCHANGED edgeVars

\* the requests of the memory engine's runs
MemDocIds == {<<>>, <<"d", "1">>}

MemContents == {<<>>, <<" ">>, WordsText(1), WordsText(3)}

MemStrategies == {"UNSPECIFIED", "SEMANTIC"}

IndexRequests ==
    {[DocumentId |-> d, Content |-> c, ChunkingStrategy |-> st, Metadata |-> EmptyMap] :
     d \in MemDocIds, c \in MemContents, st \in MemStrategies}

DeleteRequests == {[DocumentId |-> d] : d \in MemDocIds \ {<<>>}}

SearchRequest(q, k, m) == [Query |-> q, TopK |-> k, MinScore |-> m, Filters |-> EmptyMap]

SearchRequests ==
    {SearchRequest(<<>>, 0, 0), SearchRequest(WordsText(1), 0, 0),
     SearchRequest(WordsText(1), 1, 0)}

\* the configurations the engine is started with: without and with overlap
MemConfigs ==
    {[CollectionName |-> <<"t">>, ChunkSize |-> 2, ChunkOverlap |-> o] : o \in {0, 1}}

InitMem ==
    /\ ck = NoCall
    /\ cfg \in MemConfigs
    /\ collections = EmptyMap
    /\ docs = EmptyMap
    /\ docChunks = EmptyMap
    /\ lastIndexed = 0
    /\ nextUuid = 0
    /\ resp = [op |-> "none"]
    /\ CortexIdle
    /\ EdgeIdle

NextMem ==
    \/ \E req \in IndexRequests : IndexDocument(req)
    \/ \E req \in DeleteRequests : DeleteDocument(req)
    \/ \E req \in SearchRequests : SemanticSearch(req)
    \/ \E req \in SearchRequests : FullTextSearch(req)
    \/ \E req \in SearchRequests : HybridSearch(req)

SpecMem == InitMem /\ [][NextMem]_vars

-----------------------------------------------------------------------------
(* Claims about the chunker and about indexing and deleting *)

\* C4: FixedSizeChunker.Chunk terminates whenever 0 <= overlap < chunk_size:
\* no iteration panics on its slice, and the loop is left after the chunk
\* that reaches the last token (so a call still in the loop has not yet
\* produced a chunk ending at len(words)).
C4_FixedChunkerTerminates ==
    (ck.pc # "idle" /\ ck.Overlap < ck.ChunkSize) =>
        /\ ck.pc # "panic"
        /\ (ck.pc = "loop" /\ ck.chunks # <<>> => ck.end < Len(ck.words))

\* the records of the server's collection in the vector store
StoreColl == Get(collections, cfg.CollectionName)

\* the chunk ids in the vector store whose payload names document d
ChunksOf(d) ==
    {id \in DOMAIN StoreColl : Get(StoreColl[id].Payload, "document_id") = d}

\* C1: re-indexing replaces: once IndexDocument has succeeded for a
\* document_id, the chunks of that document_id in the vector store are exactly
\* the chunks this call created; none of an earlier call remains.
C1_ReindexReplaces ==
    (resp.op = "IndexDocument" /\ resp.Success) =>
        ChunksOf(resp.DocumentId) = Range(docChunks[resp.DocumentId])

\* C2: once DeleteDocument(d) has returned successfully, no chunk of d is left
\* in the vector store and d is not in the text index, whatever was indexed
\* under d before, so no search can return d.
C2_DeletedIsGone ==
    (resp.op = "DeleteDocument" /\ resp.err = "OK") =>
        /\ ChunksOf(resp.req.DocumentId) = {}
        /\ IndexKey(cfg.CollectionName, resp.req.DocumentId) \notin DOMAIN docs

\* C3: IndexDocument is all-or-nothing: a call that fails at the embedder or at
\* the vector store's Upsert answers Success=false without a transport error,
\* and leaves the text index, docChunks and lastIndexed as they were.
C3_IndexAllOrNothing ==
    [][(resp'.op = "IndexDocument"
          /\ resp'.ErrorMessage \in {"embedding error", "vector store error"})
       => /\ resp'.Success = FALSE
          /\ resp'.err = "OK"
          /\ docs' = docs
          /\ docChunks' = docChunks
          /\ lastIndexed' = lastIndexed]_vars

\* C3's case: an Upsert failure, and an embedder failure, met by a server that
\* already holds an indexed document
C3_Witness ==
    /\ resp.op = "IndexDocument"
    /\ resp.ErrorMessage = "vector store error"
    /\ resp.DocumentId \in DOMAIN docChunks
    /\ lastIndexed > 0

\* C19: IndexDocument with empty content, or with content the chunker makes
\* no chunk of (whitespace only), answers Success=false without a transport
\* error and changes nothing: vector store, text index, docChunks,
\* lastIndexed and every GetStats counter are as before the call.
C19_EmptyContentNoChange ==
    [][(resp'.op = "IndexDocument" /\ Fields(resp'.req.Content) = <<>>)
       => /\ resp'.Success = FALSE
          /\ resp'.err = "OK"
          /\ collections' = collections
          /\ docs' = docs
          /\ docChunks' = docChunks
          /\ lastIndexed' = lastIndexed
          /\ GetStats(ServerState)' = GetStats(ServerState)]_vars

\* C19's case: whitespace-only content handed to a server that already holds
\* an indexed document
C19_Witness ==
    /\ resp.op = "IndexDocument"
    /\ resp.req.Content = <<" ">>
    /\ resp.ErrorMessage = "no chunks generated"
    /\ GetStats(ServerState).TotalDocuments = 1
    /\ GetStats(ServerState).TotalChunks >= 1
    /\ GetStats(ServerState).LastIndexedAt > 0

-----------------------------------------------------------------------------
(* Searching a memory engine that holds six documents *)

SeedRequest(d, content) ==
    [DocumentId |-> <<"d", d>>, Content |-> content, ChunkingStrategy |-> "UNSPECIFIED",
     Metadata |-> EmptyMap]

\* six IndexDocument calls and the embedding each chunk was given
SearchSeeds ==
    << [req |-> SeedRequest("1", <<"a">>),           vector |-> <<1, 0>>],
       [req |-> SeedRequest("2", <<"a", " ", "b">>), vector |-> <<0, 1>>],
       [req |-> SeedRequest("3", <<"b">>),           vector |-> <<1, 1>>],
       [req |-> SeedRequest("4", <<"c">>),           vector |-> <<2, 1>>],
       [req |-> SeedRequest("5", <<"c">>),           vector |-> <<1, 2>>],
       [req |-> SeedRequest("6", <<"c">>),           vector |-> <<1, 2>>] >>

RECURSIVE Seeded(_, _)
\* the server after the IndexDocument calls of `seeds`, all successful
Seeded(s, seeds) ==
    IF seeds = <<>> THEN s
    ELSE Seeded(IndexDocumentCall(s, Head(seeds).req,
                                  [ok |-> TRUE, vectors |-> <<Head(seeds).vector>>],
                                  TRUE).s,
                Tail(seeds))

NewServer(c) ==
    [cfg |-> c, collections |-> EmptyMap, docs |-> EmptyMap, docChunks |-> EmptyMap,
     lastIndexed |-> 0, nextUuid |-> 0]

SearchServer ==
    Seeded(NewServer([CollectionName |-> <<"t">>, ChunkSize |-> 2, ChunkOverlap |-> 0]),
           SearchSeeds)

HybridRequests ==
    {SearchRequest(<<>>, 0, 0), SearchRequest(<<"a">>, 0, 0),
     SearchRequest(<<"a", " ", "b">>, 0, 0),
     SearchRequest(<<"a", " ", "b">>, 2, 0), SearchRequest(<<"a">>, 0, 9000),
     SearchRequest(<<"a">>, 2, 2 * ScoreOne)}

InitSearch ==
    /\ ck = NoCall
    /\ cfg = SearchServer.cfg
    /\ collections = SearchServer.collections
    /\ docs = SearchServer.docs
    /\ docChunks = SearchServer.docChunks
    /\ lastIndexed = SearchServer.lastIndexed
    /\ nextUuid = SearchServer.nextUuid
    /\ resp = [op |-> "none"]
    /\ CortexIdle
    /\ EdgeIdle

NextSearch ==
    \/ \E req \in HybridRequests : HybridSearch(req)
    \/ \E req \in {[DocumentId |-> <<"d", "1">>], [DocumentId |-> <<"d", "3">>]} :
           DeleteDocument(req)

SpecSearch == InitSearch /\ [][NextSearch]_vars

\* the document ids of a component list
ListIds(list) == {list[i].ID : i \in DOMAIN list}

\* C5: a HybridSearch that answers returns only documents of its full-text
\* list or of its vector list, at most top_k of them (5 when the request's
\* top_k is <= 0), and no document_id twice.
C5_HybridFromComponents ==
    (resp.op = "HybridSearch" /\ resp.err = "OK") =>
        /\ \A i \in DOMAIN resp.Results :
               resp.Results[i].DocumentId \in ListIds(resp.ftsList) \cup ListIds(resp.vecList)
        /\ Len(resp.Results) <= (IF resp.req.TopK <= 0 THEN 5 ELSE resp.req.TopK)
        /\ \A i, j \in DOMAIN resp.Results :
               resp.Results[i].DocumentId = resp.Results[j].DocumentId => i = j

\* C5's case: top_k left out, six documents in the component lists, one of
\* them in both, and five results
C5_Witness ==
    /\ resp.op = "HybridSearch"
    /\ resp.err = "OK"
    /\ resp.req.TopK = 0
    /\ Cardinality(ListIds(resp.ftsList) \cup ListIds(resp.vecList)) = 6
    /\ ListIds(resp.ftsList) \cap ListIds(resp.vecList) # {}
    /\ Len(resp.Results) = 5

\* C6: a non-empty HybridSearch result is in non-increasing score order, with
\* every score in [0, 1] and the first score exactly 1.0.
C6_HybridScores ==
    (resp.op = "HybridSearch" /\ resp.err = "OK" /\ Len(resp.Results) > 0) =>
        /\ \A i \in 1..(Len(resp.Results) - 1) :
               resp.Results[i].Score >= resp.Results[i + 1].Score
        /\ \A i \in DOMAIN resp.Results :
               resp.Results[i].Score >= 0 /\ resp.Results[i].Score <= 10000
        /\ resp.Results[1].Score = 10000

\* C6's case: a result cut by top_k whose last score is below the first
C6_Witness ==
    /\ resp.op = "HybridSearch"
    /\ resp.err = "OK"
    /\ resp.req.TopK = 2
    /\ Len(resp.Results) = 2
    /\ Len(resp.vecList) > 2
    /\ resp.Results[2].Score < resp.Results[1].Score
    /\ resp.Results[2].Score > 0

-----------------------------------------------------------------------------
(* The orchestrator: CortexServer.StreamThoughtProcess on one stream *)

\* inbound messages the caller sends on the stream before it closes it
MaxInbound == 2

\* outputs the reasoning engine emits on one downstream stream
MaxEngineOutputs == 2

\* the cap of a session's episodic memory
EpisodicCap == 50

\* the top_k of the enrichment's search request
EnrichTopK == 5

\* the progress 0.1 of the status chunk, in the unit of the scores
StatusProgress == 1000

SessionId == "s1"

EmptyContext == [SemanticMemory |-> <<>>, EpisodicMemory |-> <<>>]

\* AgentInput: the variant of its oneof and the variant's value
AgentInput(variant, query, sentiment) ==
    [SessionId |-> SessionId, variant |-> variant, user_query |-> query,
     sentiment |-> sentiment, Context |-> EmptyContext]

InboundMessages ==
    {AgentInput("user_query", <<"a">>, "NONE"), AgentInput("user_query", <<>>, "NONE"),
     AgentInput("tool_result", <<>>, "NONE"), AgentInput("none", <<>>, "NONE")}
    \cup {AgentInput("user_feedback", <<>>, sn) : sn \in {"POSITIVE", "NEGATIVE", "CORRECTION"}}

\* input.GetUserQuery(): "" unless the variant is user_query
GetUserQuery(input) == IF input.variant = "user_query" THEN input.user_query ELSE <<>>

\* input.GetUserFeedback() != nil
HasUserFeedback(input) == input.variant = "user_feedback"

\* AgentOutput with a StatusUpdate
StatusOutput(sessionID, message, progress) ==
    [SessionId |-> sessionID, kind |-> "status", status_message |-> message,
     progress |-> progress, text |-> <<>>]

\* AgentOutput with a final response
FinalResponseOutput(sessionID, response) ==
    [SessionId |-> sessionID, kind |-> "final_response", status_message |-> "",
     progress |-> 0, text |-> response]

\* a status chunk with another message than processAgentInput's
ThinkingStatus(sessionID) == StatusOutput(sessionID, "Thinking...", 3 * StatusProgress)

\* the chunk processAgentInput sends first
ProcessingStatus(sessionID) == StatusOutput(sessionID, "Processing input...", StatusProgress)

\* what the reasoning engine emits: its own status and a final response
EngineOutputs ==
    {StatusOutput(SessionId, "Thinking...", 3 * StatusProgress),
     FinalResponseOutput(SessionId, <<"o", "k">>)}

\* an AddEpisodicMemory that cuts the slice one entry late
AddEpisodicMemoryLate(mem, entry) ==
    LET m == Append(mem, entry)
    IN  IF Len(m) > EpisodicCap + 1 THEN SubSeq(m, Len(m) - EpisodicCap, Len(m)) ELSE m

\* Session.AddEpisodicMemory
AddEpisodicMemory(mem, entry) ==
    LET m == Append(mem, entry)
    IN  IF Len(m) > EpisodicCap THEN SubSeq(m, Len(m) - EpisodicCap + 1, Len(m)) ELSE m

\* what a search on memoryClient answers: an error, or results
MemoryResult(id, score) ==
    [ChunkId |-> id, DocumentId |-> <<"d", "1">>, Content |-> <<"a">>, Score |-> score,
     Metadata |-> EmptyMap]

MemoryOutcomes ==
    {[ok |-> FALSE, Results |-> <<>>], [ok |-> TRUE, Results |-> <<>>],
     [ok |-> TRUE, Results |-> <<MemoryResult(<<"u", "0">>, ScoreOne),
                                 MemoryResult(<<"u", "1">>, ScoreOne \div 2)>>]}

SemanticChunks(results) ==
    [i \in 1..Len(results) |->
        [ChunkId |-> results[i].ChunkId, Content |-> results[i].Content,
         RelevanceScore |-> results[i].Score, Metadata |-> results[i].Metadata]]

AverageScore(results) ==
    IF Len(results) > 0
    THEN SumSeq([i \in 1..Len(results) |-> results[i].Score]) \div Len(results)
    ELSE 0

\* enrichContextFromMemory with the two searches answering hybrid and semantic:
\* the calls made, the snapshot's semantic memory and the relevance returned
enrichContextFromMemory(memory, snapshot, query, hybrid, semantic) ==
    LET searchReq == [Query |-> query, TopK |-> EnrichTopK]
        first     == [method |-> "HybridSearch", req |-> searchReq, ok |-> hybrid.ok]
        second    == [method |-> "SemanticSearch", req |-> searchReq, ok |-> semantic.ok]
        Found(calls, results) ==
            [calls |-> calls,
             SemanticMemory |-> snapshot.SemanticMemory \o SemanticChunks(results),
             relevance |-> AverageScore(results)]
    IN  IF ~memory
        THEN [calls |-> <<>>, SemanticMemory |-> snapshot.SemanticMemory, relevance |-> 0]
        ELSE IF hybrid.ok THEN Found(<<first>>, hybrid.Results)
        ELSE IF semantic.ok THEN Found(<<first, second>>, semantic.Results)
        ELSE [calls |-> <<first, second>>, SemanticMemory |-> snapshot.SemanticMemory,
              relevance |-> 0]

\* a handleFeedback that takes every sentiment for praise
FeedbackTypeFlattering(sentiment) == "positive"

\* the switch of handleFeedback
FeedbackType(sentiment) ==
    CASE sentiment = "POSITIVE" -> "positive"
      [] sentiment = "NEGATIVE" -> "negative"
      [] sentiment = "CORRECTION" -> "correction"
      [] OTHER -> ""

InteractionRecord(sessionID, query, relevance, quality, feedback) ==
    [SessionID |-> sessionID, Query |-> query, ContextRelevance |-> relevance,
     ResponseQuality |-> quality, Feedback |-> feedback]

\* the message the handler is working on, by its place on the stream
MsgNo == Len(received)

Tagged(log, entry) == Append(log, [msgNo |-> MsgNo, out |-> entry])

Fail(message) == [cx EXCEPT !.pc = "failed", !.err = message]

\* stream.Recv() of StreamThoughtProcess: a message, the caller's EOF, or an
\* error.  The first message gets or creates the session
Recv ==
    /\ cx.pc = "recv"
    /\ \/ \E m \in InboundMessages :
            /\ Len(received) < MaxInbound
            /\ received' = Append(received, m)
            /\ sessions' = IF m.SessionId \in DOMAIN sessions THEN sessions
                           ELSE MapPut(sessions, m.SessionId,
                                       [ID |-> m.SessionId, UserID |-> "default-user",
                                        EpisodicMemory |-> <<>>])
            /\ cx' = [cx EXCEPT !.pc = "status", !.input = m]
       \/ /\ cx' = IF received = <<>> THEN Fail("receiving first message")
                   ELSE [cx EXCEPT !.pc = "returned"]
          /\ UNCHANGED <<received, sessions>>
       \/ /\ cx' = Fail(IF received = <<>> THEN "receiving first message"
                        ELSE "receiving message")
          /\ UNCHANGED <<received, sessions>>
    /\ UNCHANGED <<wiring, sent, metricsRecords, metricsCounts, down, memCalls>>
    /\ UNCHANGED engineVars
    /\ UNCHANGED edgeVars

\* processAgentInput up to its dispatch: the status chunk
SendStatus ==
    /\ cx.pc = "status"
    /\ \E sendOk \in BOOLEAN :
         IF sendOk
         THEN /\ sent' = Tagged(sent, ProcessingStatus(cx.input.SessionId))
              /\ cx' = [cx EXCEPT !.pc = "dispatch"]
         ELSE /\ sent' = sent
              /\ cx' = Fail("sending status")
    /\ UNCHANGED <<wiring, received, sessions, metricsRecords, metricsCounts, down, memCalls>>
    /\ UNCHANGED engineVars
    /\ UNCHANGED edgeVars

\* handleUserQuery up to the record: episodic memory, enrichment, metrics
HandleUserQuery ==
    /\ cx.pc = "dispatch"
    /\ GetUserQuery(cx.input) # <<>>
    /\ \E hybrid \in MemoryOutcomes, semantic \in MemoryOutcomes :
         LET query    == GetUserQuery(cx.input)
             sid      == cx.input.SessionId
             episodic == AddEpisodicMemory(sessions[sid].EpisodicMemory,
                                           <<"User: ">> \o query)
             found    == enrichContextFromMemory(wiring.memory, cx.input.Context, query,
                                                 hybrid, semantic)
             input    == [cx.input EXCEPT
                            !.Context = [SemanticMemory |-> found.SemanticMemory,
                                         EpisodicMemory |-> episodic]]
         IN  /\ sessions' = [sessions EXCEPT ![sid].EpisodicMemory = episodic]
             /\ memCalls' = memCalls \o [i \in 1..Len(found.calls) |->
                                            [msgNo |-> MsgNo, out |-> found.calls[i]]]
             /\ metricsRecords' =
                    Append(metricsRecords,
                           InteractionRecord(cx.input.SessionId, query, found.relevance,
                                             found.relevance, ""))
             /\ metricsCounts' =
                    StoreRecord(metricsCounts,
                                InteractionRecord(cx.input.SessionId, query, found.relevance,
                                                  found.relevance, ""))
             /\ cx' = [cx EXCEPT !.pc = "forward", !.input = input]
    /\ UNCHANGED <<wiring, received, sent, down>>
    /\ UNCHANGED engineVars
    /\ UNCHANGED edgeVars

\* processAgentInput on a user_feedback: handleFeedback
HandleFeedback ==
    /\ cx.pc = "dispatch"
    /\ GetUserQuery(cx.input) = <<>>
    /\ HasUserFeedback(cx.input)
    /\ metricsRecords' =
           Append(metricsRecords,
                  InteractionRecord(cx.input.SessionId, <<>>, 0, 0,
                                    FeedbackType(cx.input.sentiment)))
    /\ metricsCounts' =
           StoreRecord(metricsCounts,
                       InteractionRecord(cx.input.SessionId, <<>>, 0, 0,
                                         FeedbackType(cx.input.sentiment)))
    /\ cx' = [cx EXCEPT !.pc = "recv"]
    /\ UNCHANGED <<wiring, received, sent, sessions, down, memCalls>>
    /\ UNCHANGED engineVars
    /\ UNCHANGED edgeVars

\* processAgentInput on anything else: `return nil`
HandleNothing ==
    /\ cx.pc = "dispatch"
    /\ GetUserQuery(cx.input) = <<>>
    /\ ~HasUserFeedback(cx.input)
    /\ cx' = [cx EXCEPT !.pc = "recv"]
    /\ UNCHANGED <<wiring, received, sent, sessions, metricsRecords, metricsCounts, down, memCalls>>
    /\ UNCHANGED engineVars
    /\ UNCHANGED edgeVars

\* the end of handleUserQuery without a reasoning engine: the placeholder
PlaceholderReply ==
    /\ cx.pc = "forward"
    /\ ~wiring.frontal
    /\ \E sendOk \in BOOLEAN :
         IF sendOk
         THEN /\ sent' = Tagged(sent,
                    FinalResponseOutput(cx.input.SessionId,
                        <<"Received query: ">> \o GetUserQuery(cx.input)
                            \o <<" (Frontal Lobe not connected)">>))
              /\ cx' = [cx EXCEPT !.pc = "recv"]
         ELSE /\ sent' = sent
              /\ cx' = Fail("sending final response")
    /\ UNCHANGED <<wiring, received, sessions, metricsRecords, metricsCounts, down, memCalls>>
    /\ UNCHANGED engineVars
    /\ UNCHANGED edgeVars

\* forwardToFrontalLobe: frontalClient.StreamThoughtProcess(ctx)
ForwardOpen ==
    /\ cx.pc = "forward"
    /\ wiring.frontal
    /\ \E openOk \in BOOLEAN :
         IF openOk
         THEN /\ down' = Append(down, [msgNo |-> MsgNo, inputs |-> <<>>,
                                       closeSend |-> FALSE, outputs |-> <<>>,
                                       eof |-> FALSE])
              /\ cx' = [cx EXCEPT !.pc = "forwardSend"]
         ELSE /\ down' = down
              /\ cx' = Fail("connecting to frontal lobe stream")
    /\ UNCHANGED <<wiring, received, sent, sessions, metricsRecords, metricsCounts, memCalls>>
    /\ UNCHANGED engineVars
    /\ UNCHANGED edgeVars

\* forwardToFrontalLobe: frontalStream.Send(input), then CloseSend()
ForwardSend ==
    /\ cx.pc = "forwardSend"
    /\ \E sendOk \in BOOLEAN :
         IF sendOk
         THEN /\ down' = [down EXCEPT ![Len(down)].inputs = Append(@, cx.input),
                                      ![Len(down)].closeSend = TRUE]
              /\ cx' = [cx EXCEPT !.pc = "relay"]
         ELSE /\ down' = down
              /\ cx' = Fail("sending to frontal lobe")
    /\ UNCHANGED <<wiring, received, sent, sessions, metricsRecords, metricsCounts, memCalls>>
    /\ UNCHANGED engineVars
    /\ UNCHANGED edgeVars

\* forwardToFrontalLobe: frontalStream.Recv() gives an output, EOF or an error
RelayRecv ==
    /\ cx.pc = "relay"
    /\ \/ \E o \in EngineOutputs :
            /\ Len(down[Len(down)].outputs) < MaxEngineOutputs
            /\ down' = [down EXCEPT ![Len(down)].outputs = Append(@, o)]
            /\ cx' = [cx EXCEPT !.pc = "relaySend", !.output = o]
       \/ /\ down' = [down EXCEPT ![Len(down)].eof = TRUE]
          /\ cx' = [cx EXCEPT !.pc = "recv"]
       \/ /\ down' = down
          /\ cx' = Fail("receiving from frontal lobe")
    /\ UNCHANGED <<wiring, received, sent, sessions, metricsRecords, metricsCounts, memCalls>>
    /\ UNCHANGED engineVars
    /\ UNCHANGED edgeVars

\* forwardToFrontalLobe: clientStream.Send(output)
RelaySend ==
    /\ cx.pc = "relaySend"
    /\ \E sendOk \in BOOLEAN :
         IF sendOk
         THEN /\ sent' = Tagged(sent, cx.output)
              /\ cx' = [cx EXCEPT !.pc = "relay"]
         ELSE /\ sent' = sent
              /\ cx' = Fail("relaying to client")
    /\ UNCHANGED <<wiring, received, sessions, metricsRecords, metricsCounts, down, memCalls>>
    /\ UNCHANGED engineVars
    /\ UNCHANGED edgeVars

\* a stream arrives at an orchestrator wired with or without the reasoning
\* engine and the memory engine
InitCortex ==
    /\ ck = NoCall
    /\ MemIdle
    /\ wiring \in [frontal : BOOLEAN, memory : BOOLEAN]
    /\ cx = [pc |-> "recv", input |-> AgentInput("none", <<>>, "NONE"),
             output |-> StatusOutput(SessionId, "", 0), err |-> ""]
    /\ received = <<>>
    /\ sent = <<>>
    /\ sessions = EmptyMap
    /\ metricsRecords = <<>>
    /\ down = <<>>
    /\ memCalls = <<>>
    /\ metricsCounts = NewStore
    /\ EdgeIdle

NextCortex ==
    \/ Recv
    \/ SendStatus
    \/ HandleUserQuery
    \/ HandleFeedback
    \/ HandleNothing
    \/ PlaceholderReply
    \/ ForwardOpen
    \/ ForwardSend
    \/ RelayRecv
    \/ RelaySend

SpecCortex == InitCortex /\ [][NextCortex]_vars

-----------------------------------------------------------------------------
(* Claims about the orchestrator's stream *)

\* the entries of a log made while message i was being handled
EntriesFor(log, i) ==
    LET Mine(e) == e.msgNo = i
    IN  SelectSeq(log, Mine)

\* the outputs sent to the caller for message i
SentFor(i) ==
    LET mine == EntriesFor(sent, i)
    IN  [j \in 1..Len(mine) |-> mine[j].out]

\* the calls made on the memory engine for message i
CallsFor(i) ==
    LET mine == EntriesFor(memCalls, i)
    IN  [j \in 1..Len(mine) |-> mine[j].out]

IsProcessingStatus(o) ==
    o.kind = "status" /\ o.status_message = "Processing input..." /\ o.progress = 1000

\* message i's status chunk has gone out
StatusSent(i) ==
    i < Len(received) \/ (cx.pc # "status" /\ cx.err # "sending status")

\* processAgentInput has returned nil for message i
Handled(i) ==
    \/ i < Len(received)
    \/ cx.pc \in {"recv", "returned"}
    \/ (cx.pc = "failed" /\ cx.err = "receiving message")

\* C7: for every inbound message of a stream exactly one
\* status("Processing input...", 0.1) chunk is sent, before everything else
\* sent for that message and after everything sent for the message before it.
C7_OneStatusFirst ==
    /\ \A j, k \in DOMAIN sent : j < k => sent[j].msgNo <= sent[k].msgNo
    /\ \A i \in 1..Len(received) :
         IF StatusSent(i)
         THEN /\ Len(SentFor(i)) >= 1
              /\ IsProcessingStatus(SentFor(i)[1])
              /\ \A j \in 2..Len(SentFor(i)) : ~IsProcessingStatus(SentFor(i)[j])
         ELSE SentFor(i) = <<>>

\* C7's case: two messages, each answered by its status chunk and more
C7_Witness ==
    /\ Len(received) = 2
    /\ Len(SentFor(1)) >= 2
    /\ Len(SentFor(2)) >= 3
    /\ cx.pc = "returned"

\* C8: for a user_query with the reasoning engine connected, once the message
\* has been handled one downstream stream was opened for it, the input was
\* sent on it once, the send side was closed, the engine's outputs were relayed
\* to the caller unchanged and in order, and the stream was read to EOF.
C8_UserQueryRelayed ==
    wiring.frontal =>
        \A i \in 1..Len(received) :
            (received[i].variant = "user_query" /\ Handled(i)) =>
                /\ Len(EntriesFor(down, i)) = 1
                /\ Len(EntriesFor(down, i)[1].inputs) = 1
                /\ EntriesFor(down, i)[1].closeSend
                /\ EntriesFor(down, i)[1].eof
                /\ Tail(SentFor(i)) = EntriesFor(down, i)[1].outputs

\* C9: for every user_query, with the memory engine connected, the enrichment
\* calls HybridSearch(top_k=5) first, SemanticSearch with the same request only
\* if that failed, and nothing further; whatever the searches answer, the
\* query is recorded and goes on to the reasoning engine.
C9_EnrichmentDegrades ==
    (/\ wiring.memory
     /\ received # <<>>
     /\ received[Len(received)].variant = "user_query"
     /\ cx.pc \notin {"status", "dispatch"}
     /\ cx.err # "sending status") =>
        LET calls == CallsFor(Len(received))
        IN  /\ Len(calls) \in {1, 2}
            /\ calls[1].method = "HybridSearch"
            /\ calls[1].req.TopK = 5
            /\ (Len(calls) = 1 => calls[1].ok)
            /\ (Len(calls) = 2 =>
                   /\ ~calls[1].ok
                   /\ calls[2].method = "SemanticSearch"
                   /\ calls[2].req = calls[1].req)
            /\ metricsRecords # <<>>
            /\ metricsRecords[Len(metricsRecords)].Query = received[Len(received)].user_query
            /\ (wiring.frontal /\ cx.pc \in {"recv", "returned"} =>
                   Len(EntriesFor(down, Len(received))) = 1)

\* C10: handling a user_feedback appends exactly one interaction record, whose
\* feedback is the message's sentiment mapped to positive, negative or
\* correction, opens no downstream stream, leaves the episodic memory as it
\* was and sends nothing; the caller gets the status chunk and nothing else.
C10_FeedbackRecordedOnly ==
    /\ [][(cx.pc = "dispatch" /\ cx.input.variant = "user_feedback") =>
            /\ Len(metricsRecords') = Len(metricsRecords) + 1
            /\ SubSeq(metricsRecords', 1, Len(metricsRecords)) = metricsRecords
            /\ metricsRecords'[Len(metricsRecords')].Feedback =
                   (CASE cx.input.sentiment = "POSITIVE" -> "positive"
                      [] cx.input.sentiment = "NEGATIVE" -> "negative"
                      [] cx.input.sentiment = "CORRECTION" -> "correction")
            /\ down' = down
            /\ sessions' = sessions
            /\ sent' = sent
            /\ cx'.pc = "recv"]_vars
    /\ [](\A i \in 1..Len(received) :
            received[i].variant = "user_feedback" =>
                /\ Len(SentFor(i)) <= 1
                /\ EntriesFor(down, i) = <<>>
                /\ CallsFor(i) = <<>>)

\* C10's case: a correction handled on a stream whose session already holds
\* episodic memory
C10_Witness ==
    /\ Len(received) = 2
    /\ received[1].variant = "user_query"
    /\ received[2].variant = "user_feedback"
    /\ received[2].sentiment = "CORRECTION"
    /\ cx.pc = "recv"
    /\ sessions[SessionId].EpisodicMemory # <<>>
    /\ Len(metricsRecords) = 2
    /\ metricsRecords[2].Feedback = "correction"
    /\ SentFor(2) = <<ProcessingStatus(SessionId)>>

\* C11: for a tool_result with the reasoning engine connected, once the
\* message has been handled one downstream stream was opened for it, the
\* message was sent on it, and the engine's outputs for it were relayed to the
\* caller in order.
C11_ToolResultRelayed ==
    wiring.frontal =>
        \A i \in 1..Len(received) :
            (received[i].variant = "tool_result" /\ Handled(i)) =>
                /\ Len(EntriesFor(down, i)) = 1
                /\ Len(EntriesFor(down, i)[1].inputs) = 1
                /\ Tail(SentFor(i)) = EntriesFor(down, i)[1].outputs

-----------------------------------------------------------------------------
(* The session manager on its own: sessions are created and their episodic *)
(* memory is appended to, past the cap                                     *)

\* calls of AddEpisodicMemory made on one session
MaxAppends == 52

SessionIds == {"s1", "s2"}

\* the k-th entry handed to a session: every entry differs from the others
SessionEntry(k) == <<"entry", k>>

\* Manager.Create(sessionID, "default-user")
SessionCreate(sid) ==
    /\ sessions' = MapPut(sessions, sid,
                          [ID |-> sid, UserID |-> "default-user", EpisodicMemory |-> <<>>])
    /\ appended' = MapPut(appended, sid, <<>>)
    /\ UNCHANGED <<wiring, cx, received, sent, metricsRecords, down, memCalls,
                   metricsCounts, http, gw>>
    /\ UNCHANGED sideVars
    /\ UNCHANGED engineVars

\* Session.AddEpisodicMemory(entry) on a session the manager holds
SessionAdd(sid) ==
    /\ sid \in DOMAIN sessions
    /\ Len(appended[sid]) < MaxAppends
    /\ LET entry == SessionEntry(Len(appended[sid]) + 1)
       IN  /\ sessions' = [sessions EXCEPT
                             ![sid].EpisodicMemory = AddEpisodicMemory(@, entry)]
           /\ appended' = [appended EXCEPT ![sid] = Append(@, entry)]
    /\ UNCHANGED <<wiring, cx, received, sent, metricsRecords, down, memCalls,
                   metricsCounts, http, gw>>
    /\ UNCHANGED sideVars
    /\ UNCHANGED engineVars

InitSession ==
    /\ ck = NoCall
    /\ MemIdle
    /\ CortexIdle
    /\ EdgeIdle

NextSession ==
    \/ \E sid \in SessionIds : SessionCreate(sid)
    \/ \E sid \in SessionIds : SessionAdd(sid)

SpecSession == InitSession /\ [][NextSession]_vars

\* C12: a session's episodic memory never holds more than 50 entries, and it
\* is exactly the last min(n, 50) of the n entries appended to the session,
\* in the order they were appended.
C12_EpisodicCap ==
    \A sid \in DOMAIN sessions :
        LET mem  == sessions[sid].EpisodicMemory
            log  == appended[sid]
            kept == IF Len(log) < 50 THEN Len(log) ELSE 50
        IN  /\ Len(mem) <= 50
            /\ mem = SubSeq(log, Len(log) - kept + 1, Len(log))

\* C12's case: the 51st append has evicted the first entry and no other
C12_Witness ==
    /\ "s1" \in DOMAIN sessions
    /\ Len(appended["s1"]) = 51
    /\ Len(sessions["s1"].EpisodicMemory) = 50
    /\ sessions["s1"].EpisodicMemory[1] = SessionEntry(2)
    /\ sessions["s1"].EpisodicMemory[50] = SessionEntry(51)

-----------------------------------------------------------------------------
(* The metrics store on its own: records are added, Summary reads them *)

\* records added to one store
MaxRecords == 4

\* a ratio of two counts, as Summary divides them
Ratio(num, den) == [num |-> num, den |-> den]

\* a Summary that leaves the corrections out of the feedback total
SummaryWithoutCorrections(store, records) ==
    LET Count(k) == IF k \in DOMAIN store.feedbackCounts THEN store.feedbackCounts[k] ELSE 0
        totalFeedback == Count("positive") + Count("negative")
    IN  [TotalInteractions |-> store.totalInteractions,
         FeedbackCounts |-> store.feedbackCounts,
         UserSatisfactionRate |-> IF totalFeedback > 0
                                  THEN Ratio(Count("positive"), totalFeedback)
                                  ELSE Ratio(0, 1)]

\* Store.Summary: the counters, and positive / (positive + negative + correction)
Summary(store, records) ==
    LET Count(k) == IF k \in DOMAIN store.feedbackCounts THEN store.feedbackCounts[k] ELSE 0
        totalFeedback == Count("positive") + Count("negative") + Count("correction")
        n == Len(records)
    IN  [TotalInteractions |-> store.totalInteractions,
         FeedbackCounts |-> store.feedbackCounts,
         AvgResponseQuality |->
             IF n > 0 THEN SumSeq([i \in 1..n |-> records[i].ResponseQuality]) \div n ELSE 0,
         AvgContextRelevance |->
             IF n > 0 THEN SumSeq([i \in 1..n |-> records[i].ContextRelevance]) \div n ELSE 0,
         UserSatisfactionRate |-> IF totalFeedback > 0
                                  THEN Ratio(Count("positive"), totalFeedback)
                                  ELSE Ratio(0, 1)]

\* what the orchestrator records: a user query (feedback unset) or a feedback
MetricsInputs ==
    {InteractionRecord(SessionId, <<"a">>, ScoreOne \div 2, ScoreOne \div 2, "")}
    \cup {InteractionRecord(SessionId, <<>>, 0, 0, f) :
            f \in {"positive", "negative", "correction"}}

\* Store.Record(rec)
MetricsRecord(rec) ==
    /\ Len(metricsRecords) < MaxRecords
    /\ metricsRecords' = Append(metricsRecords, rec)
    /\ metricsCounts' = StoreRecord(metricsCounts, rec)
    /\ UNCHANGED <<wiring, cx, received, sent, sessions, down, memCalls>>
    /\ UNCHANGED engineVars
    /\ UNCHANGED edgeVars

InitMetrics ==
    /\ ck = NoCall
    /\ MemIdle
    /\ CortexIdle
    /\ EdgeIdle

NextMetrics == \E rec \in MetricsInputs : MetricsRecord(rec)

SpecMetrics == InitMetrics /\ [][NextMetrics]_vars

\* the records of the store that carry feedback f
WithFeedback(f) == {i \in DOMAIN metricsRecords : metricsRecords[i].Feedback = f}

\* C13: with p positive, n negative and c correction records in the store,
\* among any number of records without feedback, Summary reports
\* user_satisfaction_rate = p / (p + n + c) when p + n + c > 0 and 0 otherwise.
C13_SatisfactionRate ==
    LET p == Cardinality(WithFeedback("positive"))
        n == Cardinality(WithFeedback("negative"))
        c == Cardinality(WithFeedback("correction"))
        rate == Summary(metricsCounts, metricsRecords).UserSatisfactionRate
    IN  /\ rate.den > 0
        /\ IF p + n + c > 0
           THEN rate.num * (p + n + c) = p * rate.den
           ELSE rate.num = 0

\* C13's case: one record of each feedback and a user query between them
C13_Witness ==
    /\ Len(metricsRecords) = 4
    /\ metricsRecords[1].Feedback = "positive"
    /\ metricsRecords[2].Feedback = ""
    /\ metricsRecords[3].Feedback = "correction"
    /\ metricsRecords[4].Feedback = "negative"
    /\ Summary(metricsCounts, metricsRecords).UserSatisfactionRate = Ratio(1, 3)

-----------------------------------------------------------------------------
(* The OpenAI-compatible facade: openaicompat.Handler serving one          *)
(* POST /v1/chat/completions.  In the running service (main) the handler   *)
(* holds its own client of the reasoning engine, made by                   *)
(* ConnectFrontalLobe(cfg.FrontalLobeAddr): its stream goes to the engine, *)
(* not to the CortexServer.                                                *)

\* outputs the reasoning engine emits on the facade's stream
MaxDownstream == 2

\* the buffer of the channel streamReasoningEngine returns
ChunkChanCap == 10

ModelName == <<"m">>

ChatMessage(role, content) == [Role |-> role, Content |-> content]

\* ChatCompletionRequest as decoded, or a body that is not JSON
ChatRequest(json, messages, stream, user) ==
    [json |-> json, Model |-> ModelName, Messages |-> messages, Stream |-> stream,
     User |-> user]

ChatRequests ==
    {ChatRequest(FALSE, <<>>, FALSE, "")}
    \cup {ChatRequest(TRUE, <<>>, s, "") : s \in BOOLEAN}
    \cup {ChatRequest(TRUE, <<ChatMessage("user", <<"q">>)>>, s, "") : s \in BOOLEAN}
    \cup {ChatRequest(TRUE, <<ChatMessage("system", <<"s">>), ChatMessage("user", <<"p">>),
                              ChatMessage("assistant", <<"z">>),
                              ChatMessage("user", <<"q">>)>>, s, "u") : s \in BOOLEAN}

\* extractQueryAndSystem: the last system message and the last user message
extractQueryAndSystem(messages) ==
    LET Last(role) ==
            LET at == {i \in DOMAIN messages : messages[i].Role = role}
            IN  IF at = {} THEN <<>>
                ELSE messages[CHOOSE i \in at : \A j \in at : j <= i].Content
    IN  [query |-> Last("user"), systemPrompt |-> Last("system")]

\* sessionID := req.User, or a generated one
FacadeSessionId(req) == IF req.User # "" THEN req.User ELSE "openai-compat-0"

\* the AgentInput callReasoningEngine and streamReasoningEngine build
FacadeInput(req) ==
    [SessionId |-> FacadeSessionId(req), variant |-> "user_query",
     user_query |-> extractQueryAndSystem(req.Messages).query, sentiment |-> "NONE",
     Context |-> [SystemPrompt |-> extractQueryAndSystem(req.Messages).systemPrompt,
                  SemanticMemory |-> <<>>, EpisodicMemory |-> <<>>]]

\* AgentOutput with a thought chain
ThoughtOutput(sessionID, thought) ==
    [SessionId |-> sessionID, kind |-> "thought_chain", status_message |-> "",
     progress |-> 0, text |-> thought]

\* what the reasoning engine may emit on the stream
FacadeOutputs ==
    {ThoughtOutput(SessionId, <<"t">>), FinalResponseOutput(SessionId, <<"x">>),
     FinalResponseOutput(SessionId, <<"y">>),
     StatusOutput(SessionId, "Thinking...", 3 * StatusProgress)}

\* output.GetThoughtChain() and output.GetFinalResponse()
GetOutputText(output, kind) == IF output.kind = kind THEN output.text ELSE <<>>

\* the echo of a handler without a reasoning engine
EchoResponse(req) ==
    <<"Echo: ">> \o extractQueryAndSystem(req.Messages).query \o <<" (model: ">>
        \o req.Model \o <<", no reasoning engine connected)">>

\* one write on the http.ResponseWriter: a JSON body or an SSE frame.  from
\* (what the content was made of) and late (written after the request was
\* cancelled) are not on the wire
Written(object, role, content, finish, type, from, late) ==
    [object |-> object, role |-> role, content |-> content, finish_reason |-> finish,
     type |-> type, from |-> from, late |-> late]

\* writeError
ErrorBody(type) == Written("error", "", <<>>, "", type, "", FALSE)

\* the stream to the reasoning engine, as the engine's side sees it
NoStream ==
    [opened |-> FALSE, inputs |-> <<>>, closeSend |-> FALSE, outputs |-> <<>>,
     eof |-> FALSE, closed |-> FALSE]

\* what the downstream does during one callReasoningEngine
DownOutcomes ==
    {[open |-> FALSE, send |-> FALSE, outputs |-> <<>>, end |-> "eof"],
     [open |-> TRUE, send |-> FALSE, outputs |-> <<>>, end |-> "eof"]}
    \cup {[open |-> TRUE, send |-> TRUE, outputs |-> outs, end |-> e] :
            outs \in UNION {[1..n -> FacadeOutputs] : n \in 0..MaxDownstream},
            e \in {"eof", "error"}}

\* the last non-empty final response of the outputs, "" when there is none
LastFinalResponse(outputs) ==
    LET at == {i \in DOMAIN outputs : GetOutputText(outputs[i], "final_response") # <<>>}
    IN  IF at = {} THEN <<>>
        ELSE outputs[CHOOSE i \in at : \A j \in at : j <= i].text

\* callReasoningEngine against a downstream that behaves as d: the response,
\* the failure ("" for none) and the stream as the engine saw it
callReasoningEngine(frontal, req, d) ==
    LET Result(response, failed, stream) ==
            [response |-> response, failed |-> failed, stream |-> stream]
        opened == [NoStream EXCEPT !.opened = TRUE]
        sentTo == [opened EXCEPT !.inputs = <<FacadeInput(req)>>, !.closeSend = TRUE,
                                 !.outputs = d.outputs]
        final  == LastFinalResponse(d.outputs)
    IN  IF ~frontal THEN Result(EchoResponse(req), "", NoStream)
        ELSE IF ~d.open THEN Result(<<>>, "open", NoStream)
        ELSE IF ~d.send THEN Result(<<>>, "send", opened)
        ELSE IF d.end = "error" THEN Result(<<>>, "recv", sentTo)
        ELSE Result(IF final = <<>> THEN <<"No response generated.">> ELSE final, "",
                    [sentTo EXCEPT !.eof = TRUE])

FacadeUnchanged ==
    /\ UNCHANGED <<appended, gw>>
    /\ UNCHANGED sideVars
    /\ UNCHANGED cortexVars
    /\ UNCHANGED engineVars

\* handleChatCompletions on a body that is not JSON or has no messages
ChatBadRequest(req) ==
    /\ http.pc = "wait"
    /\ ~req.json \/ Len(req.Messages) = 0
    /\ http' = [http EXCEPT !.pc = "done", !.req = req, !.status = 400,
                            !.body = <<ErrorBody("invalid_request_error")>>]
    /\ FacadeUnchanged

\* handleNonStreamingCompletion; the deferred cancel() ends the stream
NonStreamingCompletion(req, d) ==
    /\ http.pc = "wait"
    /\ req.json /\ Len(req.Messages) > 0 /\ ~req.Stream
    /\ LET r == callReasoningEngine(http.frontal, req, d)
       IN  http' = [http EXCEPT
                      !.pc = "done", !.req = req, !.failed = r.failed,
                      !.stream = [r.stream EXCEPT !.closed = r.stream.opened],
                      !.status = IF r.failed # "" THEN 500 ELSE 200,
                      !.body = IF r.failed # "" THEN <<ErrorBody("server_error")>>
                               ELSE <<Written("chat.completion", "assistant", r.response,
                                              "stop", "", "", FALSE)>>]
    /\ FacadeUnchanged

\* handleStreamingCompletion up to its loop over the channel: the role chunk
\* and streamReasoningEngine up to the start of its goroutine
StreamingBegin(req, flusher, d) ==
    /\ http.pc = "wait"
    /\ req.json /\ Len(req.Messages) > 0 /\ req.Stream
    /\ LET role   == Written("chat.completion.chunk", "assistant", <<>>, "", "", "", FALSE)
           begun  == [http EXCEPT !.req = req, !.status = 200, !.body = <<role>>]
           opened == [NoStream EXCEPT !.opened = TRUE]
       IN  http' =
             IF ~flusher
             THEN [http EXCEPT !.pc = "done", !.req = req, !.status = 500,
                               !.body = <<ErrorBody("server_error")>>]
             ELSE IF ~http.frontal
             THEN [begun EXCEPT !.pc = "range",
                                !.producer = [pc |-> "send", echo |-> TRUE,
                                              pending |-> [content |-> EchoResponse(req),
                                                           from |-> "echo"]]]
             ELSE IF ~d.open
             THEN [begun EXCEPT !.pc = "done", !.failed = "open", !.chClosed = TRUE]
             ELSE IF ~d.send
             THEN [begun EXCEPT !.pc = "done", !.failed = "send", !.chClosed = TRUE,
                                !.stream = [opened EXCEPT !.closed = TRUE]]
             ELSE [begun EXCEPT !.pc = "range",
                                !.stream = [opened EXCEPT !.inputs = <<FacadeInput(req)>>,
                                                          !.closeSend = TRUE],
                                !.producer = [@ EXCEPT !.pc = "recv"]]
    /\ FacadeUnchanged

\* the goroutine of streamReasoningEngine: stream.Recv() gives an output, EOF
\* or an error; on the last two the deferred close(ch) runs.  The engine
\* emits outputs of `outputs`, at most `most` of them
ProducerRecvFrom(outputs, most) ==
    /\ http.producer.pc = "recv"
    /\ \/ \E o \in outputs :
            LET thought == GetOutputText(o, "thought_chain")
                final   == GetOutputText(o, "final_response")
                got     == [http EXCEPT !.stream.outputs = Append(@, o)]
            IN  /\ Len(http.stream.outputs) < most
                /\ http' =
                     IF thought # <<>>
                     THEN [got EXCEPT !.producer.pc = "send",
                                      !.producer.pending =
                                          [content |-> Append(thought, "\n"),
                                           from |-> "thought_chain"]]
                     ELSE IF final # <<>>
                     THEN [got EXCEPT !.producer.pc = "send",
                                      !.producer.pending =
                                          [content |-> final, from |-> "final_response"]]
                     ELSE got
       \/ /\ ~http.cancelled
          /\ http' = [http EXCEPT !.stream.eof = TRUE, !.producer.pc = "exited",
                                  !.chClosed = TRUE]
       \/ http' = [http EXCEPT !.failed = "recv", !.producer.pc = "exited",
                               !.chClosed = TRUE]
    /\ FacadeUnchanged

ProducerRecv == ProducerRecvFrom(FacadeOutputs, MaxDownstream)

\* the goroutine's `ch <- content`, which waits while the buffer is full; the
\* echo goroutine sends once and closes the channel
ProducerSend ==
    /\ http.producer.pc = "send"
    /\ Len(http.ch) < ChunkChanCap
    /\ http' = [http EXCEPT !.ch = Append(@, http.producer.pending),
                            !.producer.pc = IF http.producer.echo THEN "exited" ELSE "recv",
                            !.chClosed = http.producer.echo]
    /\ FacadeUnchanged

\* a loop over the channel that stops writing once the caller is gone
HandlerWriteWhileConnected ==
    /\ http.pc = "range"
    /\ http.ch # <<>>
    /\ ~http.cancelled
    /\ http' = [http EXCEPT
                  !.ch = Tail(@),
                  !.body = Append(@, Written("chat.completion.chunk", "", Head(http.ch).content,
                                             "", "", Head(http.ch).from, http.cancelled))]
    /\ FacadeUnchanged

\* one turn of `for content := range chunks`: a content frame
HandlerWrite ==
    /\ http.pc = "range"
    /\ http.ch # <<>>
    /\ http' = [http EXCEPT
                  !.ch = Tail(@),
                  !.body = Append(@, Written("chat.completion.chunk", "", Head(http.ch).content,
                                             "", "", Head(http.ch).from, http.cancelled))]
    /\ FacadeUnchanged

\* the channel is closed and drained: the finish chunk and the sentinel; the
\* deferred cancel() ends the stream
HandlerFinish ==
    /\ http.pc = "range"
    /\ http.ch = <<>>
    /\ http.chClosed
    /\ http' = [http EXCEPT
                  !.pc = "done",
                  !.stream.closed = http.stream.opened,
                  !.body = @ \o <<Written("chat.completion.chunk", "", <<>>, "stop", "", "",
                                          http.cancelled),
                                  Written("[DONE]", "", <<>>, "", "", "", http.cancelled)>>]
    /\ FacadeUnchanged

\* the caller goes away: r.Context() is cancelled, and with it the context
\* the stream was opened with
CancelRequest ==
    /\ http.pc = "range"
    /\ ~http.cancelled
    /\ http' = [http EXCEPT !.cancelled = TRUE, !.stream.closed = http.stream.opened]
    /\ FacadeUnchanged

\* NewHandler, then ConnectFrontalLobe, which may fail and leave the client nil
InitFacade ==
    /\ ck = NoCall
    /\ MemIdle
    /\ CortexIdle
    /\ appended = EmptyMap
    /\ gw = [pc |-> "idle"]
    /\ SideIdle
    /\ \E frontal \in BOOLEAN :
         http = [pc |-> "wait", frontal |-> frontal,
                 req |-> ChatRequest(FALSE, <<>>, FALSE, ""), status |-> 0, body |-> <<>>,
                 stream |-> NoStream, ch |-> <<>>, chClosed |-> FALSE,
                 producer |-> [pc |-> "none", echo |-> FALSE,
                               pending |-> [content |-> <<>>, from |-> ""]],
                 cancelled |-> FALSE, failed |-> ""]

NextFacade ==
    \/ \E req \in ChatRequests : ChatBadRequest(req)
    \/ \E req \in ChatRequests, d \in DownOutcomes : NonStreamingCompletion(req, d)
    \/ \E req \in ChatRequests, flusher \in BOOLEAN, d \in DownOutcomes :
            StreamingBegin(req, flusher, d)
    \/ ProducerRecv
    \/ ProducerSend
    \/ HandlerWrite
    \/ HandlerFinish
    \/ CancelRequest

SpecFacade == InitFacade /\ [][NextFacade]_vars


-----------------------------------------------------------------------------
(* Claims about the facade *)

\* the texts of a list, one after the other
Concat(texts) ==
    LET upTo[i \in 0..Len(texts)] == IF i = 0 THEN <<>> ELSE upTo[i - 1] \o texts[i]
    IN  upTo[Len(texts)]

\* the final_response texts of the outputs the engine emitted, in order
FinalResponses(outputs) ==
    LET IsFinal(o) == o.kind = "final_response"
        finals == SelectSeq(outputs, IsFinal)
    IN  [i \in 1..Len(finals) |-> finals[i].text]

\* the request was accepted: valid JSON with messages
ChatAccepted == http.pc # "wait" /\ http.req.json /\ Len(http.req.Messages) > 0

\* C14: a chat-completions query that reached the reasoning engine went
\* through the orchestrator: the metrics store holds one interaction record
\* for it (total_interactions = 1) and the input the engine received carries
\* the orchestrator's enrichment, the episodic memory with the query in it.
C14_RoutedThroughOrchestrator ==
    (ChatAccepted /\ http.stream.inputs # <<>>) =>
        /\ metricsCounts.totalInteractions = 1
        /\ Len(metricsRecords) = 1
        /\ \A i \in DOMAIN http.stream.inputs :
              http.stream.inputs[i].Context.EpisodicMemory # <<>>

\* C15: for the same messages and the same downstream outputs, the content of
\* the non-streaming completion is the concatenation of the final_response
\* chunks, and so is the final_response content of the streaming frames.
C15_SameContentBothModes ==
    (/\ ChatAccepted
     /\ http.req.Stream
     /\ http.frontal
     /\ http.pc = "done"
     /\ http.stream.eof) =>
        LET outputs == http.stream.outputs
            unary   == callReasoningEngine(TRUE, http.req,
                           [open |-> TRUE, send |-> TRUE, outputs |-> outputs,
                            end |-> "eof"]).response
            IsFinal(w) == w.from = "final_response"
            frames  == SelectSeq(http.body, IsFinal)
            streamed == Concat([i \in 1..Len(frames) |-> frames[i].content])
        IN  /\ streamed = Concat(FinalResponses(outputs))
            /\ unary = Concat(FinalResponses(outputs))

\* C16: a streaming response that was started is, in order, the role frame,
\* the content frames in the order the downstream emitted them, the finish
\* frame and the [DONE] sentinel; once the handler has returned the sentinel
\* has been written, exactly once and last.
C16_StreamFraming ==
    (ChatAccepted /\ http.req.Stream /\ http.status = 200) =>
        LET b == http.body
            IsDone(w) == w.object = "[DONE]"
            IsContent(w) ==
                /\ w.object = "chat.completion.chunk"
                /\ w.role = ""
                /\ w.finish_reason = ""
        IN  /\ Len(b) >= 1
            /\ b[1].role = "assistant" /\ b[1].content = <<>> /\ b[1].finish_reason = ""
            /\ Len(SelectSeq(b, IsDone)) <= 1
            /\ \A i \in DOMAIN b : IsDone(b[i]) => i = Len(b)
            /\ http.pc = "done" =>
                  /\ Len(b) >= 3
                  /\ IsDone(b[Len(b)])
                  /\ b[Len(b) - 1].finish_reason = "stop"
                  /\ b[Len(b) - 1].content = <<>>
                  /\ b[Len(b) - 1].role = ""
                  /\ \A i \in 2..(Len(b) - 2) : IsContent(b[i])

\* C17: for an accepted request whose downstream call failed (open, send or
\* a receive error), in either mode, the caller gets status 500 and an error
\* body of type server_error.
C17_DownstreamFailureIs500 ==
    (ChatAccepted /\ http.pc = "done" /\ http.failed # "") =>
        /\ http.status = 500
        /\ http.body = <<ErrorBody("server_error")>>

\* C18: once the request of a streaming completion is cancelled the facade
\* writes no further frame, and the downstream stream is closed.
C18_CancelStopsEmitting ==
    /\ \A i \in DOMAIN http.body : ~http.body[i].late
    /\ (http.cancelled /\ http.stream.opened) => http.stream.closed

-----------------------------------------------------------------------------
(* The gateway's webhook ingestion: webhook.Handler puts items on itemChan, *)
(* the forwarder goroutine of main takes them to GatewayServer.AddItem      *)

\* items made by one handler
MaxWebhooks == 102

\* the buffer of itemChan
ItemChanCap == 100

\* createInboxItem
InboxItem(id, content, source) == [Id |-> id, Content |-> content, Source |-> source]

\* the body of a POST /webhooks/generic: not JSON, or a payload
WebhookPayloads ==
    {[json |-> FALSE, Content |-> <<>>, Source |-> ""],
     [json |-> TRUE, Content |-> <<"c">>, Source |-> ""]}

\* an enqueueItem that puts the item at the head of the queue
enqueueItemAtHead(queue, item) ==
    IF Len(queue) < ItemChanCap THEN <<item>> \o queue ELSE queue

\* enqueueItem: `select { case h.itemChan <- item: default: }`
enqueueItem(queue, item) ==
    IF Len(queue) < ItemChanCap THEN Append(queue, item) ELSE queue

GatewayUnchanged ==
    /\ UNCHANGED <<appended, http>>
    /\ UNCHANGED sideVars
    /\ UNCHANGED cortexVars
    /\ UNCHANGED engineVars

\* handleGeneric: 400 for a body that does not decode, else the item is made,
\* handed to enqueueItem and answered 202 accepted
HandleGeneric(payload) ==
    /\ gw.nextId < MaxWebhooks
    /\ LET item == InboxItem(Uuid(gw.nextId), payload.Content,
                             IF payload.Source = "" THEN "generic" ELSE payload.Source)
           queue == enqueueItem(gw.itemChan, item)
       IN  gw' = IF ~payload.json
                 THEN [gw EXCEPT !.resp = [code |-> 400, item_id |-> <<>>, status |-> ""]]
                 ELSE [gw EXCEPT !.nextId = @ + 1,
                                 !.itemChan = queue,
                                 !.offered = Append(@, item.Id),
                                 !.resp = [code |-> 202, item_id |-> item.Id,
                                           status |-> "accepted"]]
    /\ GatewayUnchanged

\* one turn of `for item := range webhookHandler.Items()`: AddItem(item)
ForwardItem ==
    /\ gw.itemChan # <<>>
    /\ gw' = [gw EXCEPT !.itemChan = Tail(@),
                        !.items = MapPut(@, Head(gw.itemChan).Id, Head(gw.itemChan)),
                        !.taken = Append(@, Head(gw.itemChan).Id)]
    /\ GatewayUnchanged

\* NewHandler and NewGatewayServer.  offered (the ids handed to enqueueItem)
\* and taken (the ids the forwarder received) are the history of the queue
InitGateway ==
    /\ ck = NoCall
    /\ MemIdle
    /\ CortexIdle
    /\ appended = EmptyMap
    /\ http = [pc |-> "idle"]
    /\ SideIdle
    /\ gw = [itemChan |-> <<>>, items |-> EmptyMap, nextId |-> 0,
             offered |-> <<>>, taken |-> <<>>,
             resp |-> [code |-> 0, item_id |-> <<>>, status |-> ""]]

NextGateway ==
    \/ \E payload \in WebhookPayloads : HandleGeneric(payload)
    \/ ForwardItem

SpecGateway == InitGateway /\ [][NextGateway]_vars

\* the ids of the items in the queue, head first
QueuedIds == [i \in 1..Len(gw.itemChan) |-> gw.itemChan[i].Id]

\* C20: the webhook queue never holds more than 100 items; a handler that
\* makes an item always returns: with fewer than 100 items queued the item is
\* appended at the tail, with 100 it is dropped and the queue is unchanged;
\* items leave the queue in the order they were enqueued.
C20_BoundedQueue ==
    /\ [](Len(gw.itemChan) <= 100)
    /\ [][Len(gw'.offered) = Len(gw.offered) + 1 =>
            /\ gw'.resp.code = 202
            /\ IF Len(gw.itemChan) < 100
               THEN /\ Len(gw'.itemChan) = Len(gw.itemChan) + 1
                    /\ SubSeq(gw'.itemChan, 1, Len(gw.itemChan)) = gw.itemChan
                    /\ gw'.itemChan[Len(gw'.itemChan)].Id = gw'.offered[Len(gw'.offered)]
               ELSE gw'.itemChan = gw.itemChan]_vars
    /\ [](LET IsKept(id) == \E i \in DOMAIN gw.taken : gw.taken[i] = id
              IsQueued(id) == \E i \in DOMAIN gw.itemChan : gw.itemChan[i].Id = id
              Entered(id) == IsKept(id) \/ IsQueued(id)
          IN  gw.taken \o QueuedIds = SelectSeq(gw.offered, Entered))

\* C20's case: an item dropped at a full queue, then the oldest item taken
C20_Witness ==
    /\ Len(gw.offered) = 101
    /\ Len(gw.itemChan) = 99
    /\ gw.taken = <<Uuid(0)>>
    /\ gw.itemChan[1].Id = Uuid(1)
    /\ gw.itemChan[99].Id = Uuid(99)
    /\ Uuid(100) \notin DOMAIN gw.items

-----------------------------------------------------------------------------
(* The knowledge graph of the memory engine: graph.KnowledgeGraph.  A node  *)
(* is its id, an edge index is the edge's position in g.edges, from 1      *)

\* triples added to one graph
MaxTriples == 3

\* largest max_hops of a Query
MaxHops == 2

\* the triples handed to AddTriple
Triples ==
    [Subject : {"A", "B", "C"}, Predicate : {"p", "q"}, Object : {"A", "B", "C"}]

\* the calls of Query: from a node the graph may hold and from one it never holds
GraphQueries ==
    [entity : {"A", "Z"}, maxHops : 1..MaxHops, relationshipFilter : {"", "p"}]

\* an AddTriple that does not enter the edge in inAdj
AddTripleOutgoingOnly(g, t) ==
    [g EXCEPT !.nodes = @ \cup {t.Subject, t.Object},
              !.edges = Append(@, [Source |-> t.Subject, Target |-> t.Object,
                                   Relationship |-> t.Predicate]),
              !.adj = MapPut(@, t.Subject, Append(Get(@, t.Subject), Len(g.edges) + 1))]

\* KnowledgeGraph.AddTriple
AddTriple(g, t) ==
    [g EXCEPT !.nodes = @ \cup {t.Subject, t.Object},
              !.edges = Append(@, [Source |-> t.Subject, Target |-> t.Object,
                                   Relationship |-> t.Predicate]),
              !.adj = MapPut(@, t.Subject, Append(Get(@, t.Subject), Len(g.edges) + 1)),
              !.inAdj = MapPut(@, t.Object, Append(Get(@, t.Object), Len(g.edges) + 1))]

\* a loop of Query that does not look an edge up in visitedEdges
RECURSIVE ScanEdgesRevisiting(_, _, _, _, _, _)
ScanEdgesRevisiting(g, idxs, far, depth, relationshipFilter, st) ==
    IF idxs = <<>> THEN st
    ELSE LET idx  == Head(idxs)
             edge == g.edges[idx]
             next ==
                 IF relationshipFilter # "" /\ edge.Relationship # relationshipFilter
                 THEN st
                 ELSE [visitedEdges |-> st.visitedEdges \cup {idx},
                       resultEdges  |-> Append(st.resultEdges, edge),
                       visited      |-> st.visited \cup {edge[far]},
                       queue        |-> IF edge[far] \in st.visited THEN st.queue
                                        ELSE Append(st.queue, [nodeID |-> edge[far],
                                                               depth |-> depth + 1])]
         IN  ScanEdgesRevisiting(g, Tail(idxs), far, depth, relationshipFilter, next)

\* one `for _, idx := range` loop of Query at the node taken from the queue:
\* far is the field of the edge that names the node at its other end
RECURSIVE ScanEdges(_, _, _, _, _, _)
ScanEdges(g, idxs, far, depth, relationshipFilter, st) ==
    IF idxs = <<>> THEN st
    ELSE LET idx  == Head(idxs)
             edge == g.edges[idx]
             next ==
                 IF idx \in st.visitedEdges THEN st
                 ELSE IF relationshipFilter # "" /\ edge.Relationship # relationshipFilter
                 THEN st
                 ELSE [visitedEdges |-> st.visitedEdges \cup {idx},
                       resultEdges  |-> Append(st.resultEdges, edge),
                       visited      |-> st.visited \cup {edge[far]},
                       queue        |-> IF edge[far] \in st.visited THEN st.queue
                                        ELSE Append(st.queue, [nodeID |-> edge[far],
                                                               depth |-> depth + 1])]
         IN  ScanEdges(g, Tail(idxs), far, depth, relationshipFilter, next)

\* `for len(queue) > 0`: the outgoing edges of the current node, then the incoming
RECURSIVE QueryLoop(_, _, _, _)
QueryLoop(g, maxHops, relationshipFilter, st) ==
    IF st.queue = <<>> THEN st
    ELSE LET current == Head(st.queue)
             popped  == [st EXCEPT !.queue = Tail(@)]
         IN  IF current.depth >= maxHops
             THEN QueryLoop(g, maxHops, relationshipFilter, popped)
             ELSE QueryLoop(g, maxHops, relationshipFilter,
                      ScanEdges(g, Get(g.inAdj, current.nodeID), "Source", current.depth,
                                relationshipFilter,
                          ScanEdges(g, Get(g.adj, current.nodeID), "Target", current.depth,
                                    relationshipFilter, popped)))

\* KnowledgeGraph.Query: the nodes as a set (the code ranges over a map)
Query(g, entity, maxHops, relationshipFilter) ==
    IF entity \notin g.nodes THEN [nodes |-> {}, edges |-> <<>>]
    ELSE LET st == QueryLoop(g, maxHops, relationshipFilter,
                       [visited |-> {entity}, visitedEdges |-> {},
                        queue |-> <<[nodeID |-> entity, depth |-> 0]>>,
                        resultEdges |-> <<>>])
         IN  [nodes |-> st.visited \cap g.nodes, edges |-> st.resultEdges]

GraphUnchanged ==
    /\ UNCHANGED conc
    /\ UNCHANGED mcp
    /\ UNCHANGED rpc
    /\ UNCHANGED storeCalls
    /\ UNCHANGED <<appended, http, gw>>
    /\ UNCHANGED cortexVars
    /\ UNCHANGED engineVars

\* a call of AddTriple
GraphAdd(t) ==
    /\ Len(kg.edges) < MaxTriples
    /\ kg' = [AddTriple(kg, t) EXCEPT !.pc = "ready"]
    /\ GraphUnchanged

\* a call of Query, and what it returned
GraphQuery(q) ==
    /\ kg' = [kg EXCEPT !.pc = "queried", !.q = q,
                        !.res = Query(kg, q.entity, q.maxHops, q.relationshipFilter)]
    /\ GraphUnchanged

\* graph.New
InitGraph ==
    /\ conc = [pc |-> "idle"]
    /\ mcp = [pc |-> "idle"]
    /\ rpc = [pc |-> "idle"]
    /\ storeCalls = <<>>
    /\ ck = NoCall
    /\ MemIdle
    /\ CortexIdle
    /\ appended = EmptyMap
    /\ http = [pc |-> "idle"]
    /\ gw = [pc |-> "idle"]
    /\ kg = [pc |-> "ready", nodes |-> {}, edges |-> <<>>, adj |-> EmptyMap,
             inAdj |-> EmptyMap,
             q |-> [entity |-> "", maxHops |-> 0, relationshipFilter |-> ""],
             res |-> [nodes |-> {}, edges |-> <<>>]]

NextGraph ==
    \/ \E t \in Triples : GraphAdd(t)
    \/ \E q \in GraphQueries : GraphQuery(q)

SpecGraph == InitGraph /\ [][NextGraph]_vars

\* the edges a query with filter f may walk
Walkable(f) == {e \in Range(kg.edges) : f = "" \/ e.Relationship = f}

\* the entities at undirected distance at most h from entity over Walkable(f)
RECURSIVE Within(_, _, _)
Within(entity, h, f) ==
    IF h = 0 THEN {entity}
    ELSE LET S == Within(entity, h - 1, f)
         IN  S \cup {e.Target : e \in {x \in Walkable(f) : x.Source \in S}}
               \cup {e.Source : e \in {x \in Walkable(f) : x.Target \in S}}

\* C21: Query(e, h, f) on a known entity returns as nodes exactly the entities
\* at undirected distance at most h from e over the edges whose predicate is
\* f (all edges when f is empty); the nodes at distance h are not expanded:
\* every returned edge touches a node at distance below h; an unknown entity
\* returns no nodes and no edges.
C21_QueryIsBall ==
    kg.pc = "queried" =>
        IF kg.q.entity \in kg.nodes
        THEN /\ kg.res.nodes = Within(kg.q.entity, kg.q.maxHops, kg.q.relationshipFilter)
             /\ \A i \in DOMAIN kg.res.edges :
                  /\ kg.res.edges[i] \in Walkable(kg.q.relationshipFilter)
                  /\ {kg.res.edges[i].Source, kg.res.edges[i].Target}
                       \cap Within(kg.q.entity, kg.q.maxHops - 1,
                                   kg.q.relationshipFilter) # {}
        ELSE kg.res.nodes = {} /\ kg.res.edges = <<>>

\* C21's case: B is reached from A over an incoming edge of A, and C, one
\* hop further over an incoming edge of B, is known but left out at max_hops 1
C21_Witness ==
    /\ kg.pc = "queried"
    /\ kg.q = [entity |-> "A", maxHops |-> 1, relationshipFilter |-> "p"]
    /\ kg.res.nodes = {"A", "B"}
    /\ kg.nodes = {"A", "B", "C"}
    /\ \E i \in DOMAIN kg.edges : kg.edges[i] = [Source |-> "B", Target |-> "A",
                                                 Relationship |-> "p"]
    /\ \E i \in DOMAIN kg.edges : kg.edges[i] = [Source |-> "C", Target |-> "B",
                                                 Relationship |-> "p"]

-----------------------------------------------------------------------------
(* The two indexes on their own: calls of InMemoryStore and of               *)
(* textindex.Index with any collection name, taken one at a time            *)

\* calls made on the two indexes
MaxStoreCalls == 3

\* collection names: a plain one, and one that holds the key separator
CollectionNames == {<<"a">>, <<"a", NUL, "b">>}

\* vectorstore.Record
Record(id, vector, tag) ==
    [ID |-> id, Vector |-> vector, Payload |-> MapPut(EmptyMap, <<"tag">>, tag)]

\* the record lists handed to Upsert: one record, the same id twice, two ids
UpsertLists ==
    {<<Record(<<"1">>, <<1, 0>>, <<"x">>)>>,
     <<Record(<<"1">>, <<0, 1>>, <<"y">>)>>,
     <<Record(<<"1">>, <<1, 0>>, <<"x">>), Record(<<"1">>, <<0, 1>>, <<"y">>)>>,
     <<Record(<<"1">>, <<0, 1>>, <<"y">>), Record(<<"2">>, <<1, 0>>, <<"x">>)>>}

\* the id lists handed to Delete
DeleteLists == {<<<<"1">>>>, <<<<"1">>, <<"2">>>>}

\* textindex.Document
TextDocuments ==
    {[ID |-> <<"1">>, Content |-> <<"x">>, Metadata |-> EmptyMap],
     [ID |-> <<"2">>, Content |-> <<"x">>, Metadata |-> EmptyMap]}

StoreUnchanged ==
    /\ UNCHANGED conc
    /\ UNCHANGED mcp
    /\ UNCHANGED rpc
    /\ UNCHANGED <<ck, cfg, docChunks, lastIndexed, nextUuid, resp>>
    /\ UNCHANGED cortexVars
    /\ UNCHANGED <<appended, http, gw, kg>>

\* a call of InMemoryStore.Upsert
VecUpsert(c, records) ==
    /\ Len(storeCalls) < MaxStoreCalls
    /\ collections' = StoreUpsert(collections, c, records)
    /\ storeCalls' = Append(storeCalls,
                            [op |-> "Upsert", collection |-> c, records |-> records])
    /\ UNCHANGED docs
    /\ StoreUnchanged

\* a call of InMemoryStore.Delete
VecDelete(c, ids) ==
    /\ Len(storeCalls) < MaxStoreCalls
    /\ collections' = StoreDelete(collections, c, ids).collections
    /\ storeCalls' = Append(storeCalls, [op |-> "Delete", collection |-> c, ids |-> ids])
    /\ UNCHANGED docs
    /\ StoreUnchanged

\* a call of Index.Add
TextAdd(c, doc) ==
    /\ Len(storeCalls) < MaxStoreCalls
    /\ docs' = IndexAdd(docs, c, doc)
    /\ storeCalls' = Append(storeCalls, [op |-> "Add", collection |-> c, doc |-> doc])
    /\ UNCHANGED collections
    /\ StoreUnchanged

\* a call of Index.Delete
TextDelete(c, id) ==
    /\ Len(storeCalls) < MaxStoreCalls
    /\ docs' = IndexDelete(docs, c, id)
    /\ storeCalls' = Append(storeCalls, [op |-> "IndexDelete", collection |-> c, id |-> id])
    /\ UNCHANGED collections
    /\ StoreUnchanged

\* NewInMemoryStore and textindex.New
InitStore ==
    /\ ck = NoCall
    /\ MemIdle
    /\ CortexIdle
    /\ EdgeIdle

NextStore ==
    \/ \E c \in CollectionNames, records \in UpsertLists : VecUpsert(c, records)
    \/ \E c \in CollectionNames, ids \in DeleteLists : VecDelete(c, ids)
    \/ \E c \in CollectionNames, doc \in TextDocuments : TextAdd(c, doc)
    \/ \E c \in CollectionNames, doc \in TextDocuments : TextDelete(c, doc.ID)

SpecStore == InitStore /\ [][NextStore]_vars

\* whether a call names id i of the vector collection c
NamesId(call, c, i) ==
    /\ call.collection = c
    /\ \/ call.op = "Upsert" /\ \E k \in DOMAIN call.records : call.records[k].ID = i
       \/ call.op = "Delete" /\ i \in Range(call.ids)

\* the last call that names id i of c: its position in storeCalls, 0 for none
LastNaming(c, i) ==
    LET at == {n \in DOMAIN storeCalls : NamesId(storeCalls[n], c, i)}
    IN  IF at = {} THEN 0 ELSE CHOOSE n \in at : \A m \in at : m <= n

\* the ids upserted into c and not deleted since
LiveIds(c) ==
    {i \in {<<"1">>, <<"2">>} :
        LastNaming(c, i) # 0 /\ storeCalls[LastNaming(c, i)].op = "Upsert"}

\* the record the most recent Upsert gave id i of c
MostRecent(c, i) ==
    LET records == storeCalls[LastNaming(c, i)].records
        at == {k \in DOMAIN records : records[k].ID = i}
    IN  records[CHOOSE k \in at : \A m \in at : m <= k]

\* C22: after any sequence of Upsert and Delete calls, Count(c) is the number
\* of distinct ids upserted into c and not deleted since; every Search result
\* holds each of these ids once, with the payload of the most recent Upsert of
\* the id and the score of its vector; an Upsert repeated with the same
\* records leaves the store as it is.
C22_UpsertDedup ==
    /\ \A c \in CollectionNames :
         /\ StoreCount(collections, c) = Cardinality(LiveIds(c))
         /\ \A v \in Vectors :
              \A hits \in StoreSearch(collections, c, v, 10, EmptyMap) :
                /\ \A a, b \in DOMAIN hits : hits[a].ID = hits[b].ID => a = b
                /\ {hits[a].ID : a \in DOMAIN hits} = LiveIds(c)
                /\ \A a \in DOMAIN hits :
                     /\ hits[a].Payload = MostRecent(c, hits[a].ID).Payload
                     /\ hits[a].Score =
                          cosineSimilarity(v, MostRecent(c, hits[a].ID).Vector)
    /\ \A n \in DOMAIN storeCalls :
         (n = Len(storeCalls) /\ storeCalls[n].op = "Upsert") =>
             StoreUpsert(collections, storeCalls[n].collection, storeCalls[n].records)
                 = collections

\* C22's case: id 1 upserted, then upserted again with another vector and
\* payload next to id 2, then id 1 deleted: id 2 is what is left
C22_Witness ==
    /\ Len(storeCalls) = 3
    /\ storeCalls[1] = [op |-> "Upsert", collection |-> <<"a">>,
                        records |-> <<Record(<<"1">>, <<1, 0>>, <<"x">>)>>]
    /\ storeCalls[2] = [op |-> "Upsert", collection |-> <<"a">>,
                        records |-> <<Record(<<"1">>, <<0, 1>>, <<"y">>),
                                      Record(<<"2">>, <<1, 0>>, <<"x">>)>>]
    /\ storeCalls[3] = [op |-> "Delete", collection |-> <<"a">>, ids |-> <<<<"1">>>>]
    /\ StoreCount(collections, <<"a">>) = 1
    /\ collections[<<"a">>][<<"2">>].Payload[<<"tag">>] = <<"x">>

\* what Search and Count answer on collection c of the two indexes
Answers(colls, d, c) ==
    [count    |-> StoreCount(colls, c),
     search   |-> [v \in Vectors |-> StoreSearch(colls, c, v, 10, EmptyMap)],
     ftsCount |-> IndexCount(d, c),
     fts      |-> IndexSearch(d, c, <<"x">>, 10, EmptyMap)]

\* C23: a call of Add, Upsert or Delete on one collection never changes what
\* Search and Count answer on another collection, in the vector store and in
\* the text index.
C23_CollectionsIsolated ==
    [][\A c1 \in CollectionNames :
          (storeCalls' # storeCalls /\ storeCalls'[Len(storeCalls')].collection # c1)
              => Answers(collections', docs', c1) = Answers(collections, docs, c1)]_vars

-----------------------------------------------------------------------------
(* The gRPC server of the Cortex service: the interceptor chains of main    *)
(* around the handlers of CortexServer, one RPC at a time                   *)

\* RPCs served by one process
MaxRpcs == 3

\* a handler's return with a status code, or a panic that unwinds the stack
Returned(code, out) == [panic |-> FALSE, code |-> code, out |-> out]

Panicked == [panic |-> TRUE, code |-> "", out |-> [none |-> TRUE]]

\* UnaryRecovery: the deferred recover() turns a panic into codes.Internal
UnaryRecovery(o) == IF o.panic THEN Returned("Internal", [none |-> TRUE]) ELSE o

\* UnaryLogging, UnaryTimeout and StreamLogging: no recover(), the handler's
\* return is passed on and a panic unwinds through them
UnaryLogging(o) == o

UnaryTimeout(o) == o

StreamLogging(o) == o

\* grpc.ChainUnaryInterceptor(UnaryRecovery, UnaryLogging, UnaryTimeout)
ChainUnary(o) == UnaryRecovery(UnaryLogging(UnaryTimeout(o)))

\* grpc.ChainStreamInterceptor(StreamLogging)
ChainStream(o) == StreamLogging(o)

\* IngestRequest: without an item, or with one
IngestRequests ==
    {[hasItem |-> FALSE, Item |-> InboxItem(<<>>, <<>>, "")]} \cup
    {[hasItem |-> TRUE, Item |-> InboxItem(id, content, "email")] :
        id \in {<<"i", "1">>, <<"i", "2">>}, content \in {<<>>, <<"c">>}}

\* CortexServer.IngestItem: the call made on memoryClient and the response;
\* the getters of a nil item return zero values, an IndexDocument error is
\* logged only.  Of the metadata the model keeps "source"
IngestItem(memory, req, indexOk) ==
    LET item == IF req.hasItem THEN req.Item ELSE InboxItem(<<>>, <<>>, "")
    IN  [calls |-> IF memory /\ item.Content # <<>>
                   THEN <<[method |-> "IndexDocument",
                           req |-> [DocumentId |-> item.Id, Content |-> item.Content,
                                    Metadata |-> [source |-> item.Source]],
                           ok |-> indexOk]>>
                   ELSE <<>>,
         out |-> [ItemId |-> item.Id, Accepted |-> TRUE,
                  Message |-> "Item accepted for processing", Status |-> "ANALYZING"]]

\* ClassifyItem and GenerateWeeklyReview: the fallback response, or the
\* reasoning engine's
UnaryProxy(method, frontal) ==
    [from |-> IF frontal THEN "frontal" ELSE "fallback", method |-> method]

RpcUnchanged ==
    /\ UNCHANGED conc
    /\ UNCHANGED mcp
    /\ UNCHANGED <<wiring, cx, received, sent, sessions, metricsRecords, down,
                   metricsCounts>>
    /\ UNCHANGED engineVars
    /\ UNCHANGED <<appended, http, gw, kg, storeCalls>>

\* the server after an RPC: a panic that no interceptor recovered ends the process
Served(method, kind, req, calls, raised, o) ==
    [pc |-> "served", alive |-> ~o.panic, served |-> rpc.served + 1,
     method |-> method, kind |-> kind, req |-> req, calls |-> calls,
     raised |-> raised, panic |-> o.panic, code |-> o.code, out |-> o.out]

\* the IngestItem RPC; the handler may panic on entry
ServeIngestItem(req, raised, indexOk) ==
    /\ rpc.alive /\ rpc.served < MaxRpcs
    /\ LET r == IngestItem(wiring.memory, req, indexOk)
           calls == IF raised THEN <<>> ELSE r.calls
       IN  /\ memCalls' = memCalls \o calls
           /\ rpc' = Served("IngestItem", "unary", req, calls, raised,
                            ChainUnary(IF raised THEN Panicked ELSE Returned("OK", r.out)))
    /\ RpcUnchanged

\* the ClassifyItem and GenerateWeeklyReview RPCs
ServeUnaryProxy(method, raised) ==
    /\ rpc.alive /\ rpc.served < MaxRpcs
    /\ rpc' = Served(method, "unary", [hasItem |-> FALSE], <<>>, raised,
                     ChainUnary(IF raised THEN Panicked
                                ELSE Returned("OK", UnaryProxy(method, wiring.frontal))))
    /\ UNCHANGED memCalls
    /\ RpcUnchanged

\* the StreamThoughtProcess RPC, with the handler taken as a whole: it returns
\* nil or an error, or panics
ServeStream(err, raised) ==
    /\ rpc.alive /\ rpc.served < MaxRpcs
    /\ rpc' = Served("StreamThoughtProcess", "stream", [hasItem |-> FALSE], <<>>, raised,
                     ChainStream(IF raised THEN Panicked
                                 ELSE Returned(IF err THEN "Unknown" ELSE "OK",
                                               [none |-> TRUE])))
    /\ UNCHANGED memCalls
    /\ RpcUnchanged

\* main: NewCortexServer, ConnectDownstream, grpc.NewServer
InitRpc ==
    /\ conc = [pc |-> "idle"]
    /\ mcp = [pc |-> "idle"]
    /\ ck = NoCall
    /\ MemIdle
    /\ cx = [pc |-> "idle"]
    /\ wiring \in [frontal : BOOLEAN, memory : BOOLEAN]
    /\ received = <<>>
    /\ sent = <<>>
    /\ sessions = EmptyMap
    /\ metricsRecords = <<>>
    /\ down = <<>>
    /\ memCalls = <<>>
    /\ metricsCounts = NewStore
    /\ appended = EmptyMap
    /\ http = [pc |-> "idle"]
    /\ gw = [pc |-> "idle"]
    /\ kg = [pc |-> "idle"]
    /\ storeCalls = <<>>
    /\ rpc = [pc |-> "ready", alive |-> TRUE, served |-> 0, method |-> "", kind |-> "",
              req |-> [hasItem |-> FALSE], calls |-> <<>>, raised |-> FALSE,
              panic |-> FALSE, code |-> "", out |-> [none |-> TRUE]]

NextRpc ==
    \/ \E req \in IngestRequests, raised, indexOk \in BOOLEAN :
         ServeIngestItem(req, raised, indexOk)
    \/ \E method \in {"ClassifyItem", "GenerateWeeklyReview"}, raised \in BOOLEAN :
         ServeUnaryProxy(method, raised)
    \/ \E err, raised \in BOOLEAN : ServeStream(err, raised)

SpecRpc == InitRpc /\ [][NextRpc]_vars

\* C24: IngestItem returns accepted = true exactly when the request carries an
\* item with non-empty content; without an item or with empty content it
\* returns accepted = false and indexes nothing; in the accepted case the
\* content is indexed into the memory engine with metadata that holds the
\* ingestion source.
C24_IngestAccepted ==
    (rpc.pc = "served" /\ rpc.method = "IngestItem" /\ ~rpc.raised) =>
        IF rpc.req.hasItem /\ rpc.req.Item.Content # <<>>
        THEN /\ rpc.out.Accepted
             /\ wiring.memory =>
                  /\ Len(rpc.calls) = 1
                  /\ rpc.calls[1].method = "IndexDocument"
                  /\ rpc.calls[1].req.Content = rpc.req.Item.Content
                  /\ rpc.calls[1].req.Metadata.source = rpc.req.Item.Source
        ELSE ~rpc.out.Accepted /\ rpc.calls = <<>>

\* C26: a panic raised inside an RPC handler of the Cortex service, unary or
\* streaming, is returned to the caller as an internal error and never ends
\* the process.
C26_PanicsRecovered ==
    /\ rpc.pc \in {"ready", "served"} => rpc.alive
    /\ (rpc.pc = "served" /\ rpc.raised) => (~rpc.panic /\ rpc.code = "Internal")

-----------------------------------------------------------------------------
(* The MCP server of the Cortex service: mcpserver.Server.ServeHTTP, one    *)
(* request at a time.  A text is kept as the parts it is formatted from     *)

\* params["arguments"]: no query, a query string, a query that is no string
ToolArguments ==
    {[limit |-> 5],
     [query |-> [isString |-> TRUE, value |-> <<>>]],
     [query |-> [isString |-> TRUE, value |-> <<"q">>]],
     [query |-> [isString |-> FALSE, value |-> 7]]}

\* the requests: another HTTP method, a body that is no JSON, a JSON-RPC call
McpRequests ==
    {[http |-> h, json |-> j, ID |-> 1, Method |-> m, name |-> n, arguments |-> a] :
        h \in {"GET", "POST"}, j \in BOOLEAN,
        m \in {"initialize", "tools/list", "tools/call", "unknown/method"},
        n \in {"search", "fts", "hybrid", "status", "nonexistent", ""},
        a \in ToolArguments}

\* what memoryClient answers: an error, or results
MemoryAnswers ==
    {[ok |-> FALSE, Results |-> <<>>], [ok |-> TRUE, Results |-> <<>>],
     [ok |-> TRUE, Results |-> <<MemoryResult(<<"d">>, ScoreOne)>>]}

\* an errorContent without the isError flag
errorContentUnflagged(msg) == [content |-> <<[type |-> "text", text |-> <<msg>>]>>]

\* errorContent
errorContent(msg) ==
    [content |-> <<[type |-> "text", text |-> <<msg>>]>>, isError |-> TRUE]

\* formatSearchResults
formatSearchResults(results, query) ==
    [content |-> <<[type |-> "text",
                    text |-> IF Len(results) = 0
                             THEN <<"No results found for", query>>
                             ELSE <<"Found", Len(results), query, results>>]>>]

\* toolSearch, toolFullTextSearch and toolHybridSearch, which differ in the
\* method called on memoryClient: (result, nil) or (nil, err), and the call made
toolSearch(memory, method, args, answer) ==
    LET query == IF "query" \in DOMAIN args /\ args.query.isString
                 THEN args.query.value ELSE <<>>
        call  == [method |-> method, req |-> [Query |-> query, TopK |-> 5, MinScore |-> 0],
                  ok |-> answer.ok]
    IN  IF query = <<>>
        THEN [nil |-> FALSE, result |-> errorContent("query is required"), calls |-> <<>>]
        ELSE IF ~memory
        THEN [nil |-> FALSE, result |-> errorContent("memory service not connected"),
              calls |-> <<>>]
        ELSE IF ~answer.ok
        THEN [nil |-> TRUE, err |-> <<method, "error">>, calls |-> <<call>>]
        ELSE [nil |-> FALSE, result |-> formatSearchResults(answer.Results, query),
              calls |-> <<call>>]

\* toolStatus
toolStatus(memory, answer) ==
    LET call == [method |-> "GetStats", req |-> <<>>, ok |-> answer.ok]
    IN  IF ~memory
        THEN [nil |-> FALSE, result |-> errorContent("memory service not connected"),
              calls |-> <<>>]
        ELSE IF ~answer.ok
        THEN [nil |-> TRUE, err |-> <<"get stats", "error">>, calls |-> <<call>>]
        ELSE [nil |-> FALSE,
              result |-> [content |-> <<[type |-> "text",
                                         text |-> <<"Second Brain Index Status">>]>>],
              calls |-> <<call>>]

\* handleToolsCall
handleToolsCall(memory, name, args, answer) ==
    CASE name = "search" -> toolSearch(memory, "SemanticSearch", args, answer)
      [] name = "fts"    -> toolSearch(memory, "FullTextSearch", args, answer)
      [] name = "hybrid" -> toolSearch(memory, "HybridSearch", args, answer)
      [] name = "status" -> toolStatus(memory, answer)
      [] OTHER -> [nil |-> TRUE, err |-> <<"unknown tool", name>>, calls |-> <<>>]

\* the encoded jsonRPCResponse: "result" and "error" are omitempty
jsonRPCResponse(id, hasResult, result, hasError, code) ==
    [JSONRPC |-> "2.0", ID |-> id, hasResult |-> hasResult, Result |-> result,
     hasError |-> hasError, Error |-> [Code |-> code]]

McpUnchanged ==
    /\ UNCHANGED conc
    /\ UNCHANGED cortexVars
    /\ UNCHANGED engineVars
    /\ UNCHANGED <<appended, http, gw, kg, storeCalls, rpc>>

\* Server.ServeHTTP
ServeHTTP(req, answer) ==
    /\ LET called == handleToolsCall(mcp.memory, req.name, req.arguments, answer)
           NoResult == [content |-> <<>>]
           body ==
               IF req.http # "POST" THEN [text |-> "method not allowed"]
               ELSE IF ~req.json THEN jsonRPCResponse(0, FALSE, NoResult, TRUE, -32700)
               ELSE CASE req.Method = "initialize" ->
                           jsonRPCResponse(req.ID, TRUE, [serverInfo |-> "secondbrain"],
                                           FALSE, 0)
                      [] req.Method = "tools/list" ->
                           jsonRPCResponse(req.ID, TRUE,
                                           [tools |-> <<"search", "fts", "hybrid", "status">>],
                                           FALSE, 0)
                      [] req.Method = "tools/call" ->
                           IF called.nil
                           THEN jsonRPCResponse(req.ID, FALSE, NoResult, TRUE, -32603)
                           ELSE jsonRPCResponse(req.ID, TRUE, called.result, FALSE, 0)
                      [] OTHER -> jsonRPCResponse(req.ID, FALSE, NoResult, TRUE, -32601)
       IN  mcp' = [mcp EXCEPT !.pc = "served", !.req = req,
                              !.status = IF req.http # "POST" THEN 405 ELSE 200,
                              !.body = body,
                              !.calls = IF req.http = "POST" /\ req.json
                                           /\ req.Method = "tools/call"
                                        THEN called.calls ELSE <<>>]
    /\ McpUnchanged

\* NewServer, with a memory client or with nil
InitMcp ==
    /\ conc = [pc |-> "idle"]
    /\ ck = NoCall
    /\ MemIdle
    /\ CortexIdle
    /\ appended = EmptyMap
    /\ http = [pc |-> "idle"]
    /\ gw = [pc |-> "idle"]
    /\ kg = [pc |-> "idle"]
    /\ storeCalls = <<>>
    /\ rpc = [pc |-> "idle"]
    /\ \E memory \in BOOLEAN :
         mcp = [pc |-> "ready", memory |-> memory, req |-> [http |-> ""], status |-> 0,
                body |-> [text |-> ""], calls |-> <<>>]

NextMcp == \E req \in McpRequests, answer \in MemoryAnswers : ServeHTTP(req, answer)

SpecMcp == InitMcp /\ [][NextMcp]_vars

\* a tools/call request that was decoded
ToolsCalled ==
    /\ mcp.pc = "served"
    /\ mcp.req.http = "POST" /\ mcp.req.json /\ mcp.req.Method = "tools/call"

\* C25: for a tools/call request, a missing or empty query argument of search,
\* fts or hybrid gives a JSON-RPC result with isError = true and no error
\* object; a failed call of the memory engine or an unknown tool name gives a
\* JSON-RPC error with code -32603 and no result; no response carries both a
\* result and an error.
C25_ToolErrors ==
    /\ (/\ ToolsCalled
        /\ mcp.req.name \in {"search", "fts", "hybrid"}
        /\ \/ "query" \notin DOMAIN mcp.req.arguments
           \/ /\ mcp.req.arguments.query.isString
              /\ mcp.req.arguments.query.value = <<>>)
       => /\ mcp.body.hasResult /\ ~mcp.body.hasError
          /\ "isError" \in DOMAIN mcp.body.Result /\ mcp.body.Result.isError
    /\ (/\ ToolsCalled
        /\ \/ mcp.req.name \notin {"search", "fts", "hybrid", "status"}
           \/ \E i \in DOMAIN mcp.calls : ~mcp.calls[i].ok)
       => /\ mcp.body.hasError /\ ~mcp.body.hasResult
          /\ mcp.body.Error.Code = -32603
    /\ (mcp.pc = "served" /\ mcp.req.http = "POST")
       => ~(mcp.body.hasResult /\ mcp.body.hasError)

\* C25's case: hybrid called with an empty query on a server that has a
\* memory client: the in-band tool error, and no call on the memory engine
C25_Witness ==
    /\ ToolsCalled
    /\ mcp.memory
    /\ mcp.req.name = "hybrid"
    /\ mcp.req.arguments = [query |-> [isString |-> TRUE, value |-> <<>>]]
    /\ mcp.body.hasResult /\ mcp.body.Result.isError
    /\ ~mcp.body.hasError
    /\ mcp.calls = <<>>

-----------------------------------------------------------------------------
(* The memory engine started from its environment: config.Load, then        *)
(* IndexDocument with the configuration it loaded                           *)

RECURSIVE AtoiDigits(_, _)
AtoiDigits(s, acc) ==
    IF s = <<>> THEN acc
    ELSE AtoiDigits(Tail(s), 10 * acc + (CHOOSE n \in 0..9 : ToString(n) = Head(s)))

\* strconv.Atoi: an optional sign, then decimal digits only
Atoi(s) ==
    LET signed == s # <<>> /\ Head(s) \in {"+", "-"}
        digits == IF signed THEN Tail(s) ELSE s
    IN  IF digits = <<>> \/ \E i \in DOMAIN digits : digits[i] \notin Digits
        THEN [ok |-> FALSE, value |-> 0]
        ELSE [ok |-> TRUE,
              value |-> IF signed /\ Head(s) = "-" THEN 0 - AtoiDigits(digits, 0)
                        ELSE AtoiDigits(digits, 0)]

\* getEnvInt: an unset or empty variable, or one Atoi rejects, gives the fallback
getEnvInt(env, key, fallback) ==
    IF Get(env, key) # <<>> /\ Atoi(Get(env, key)).ok THEN Atoi(Get(env, key)).value
    ELSE fallback

\* hippocampus config.Load, the fields the model keeps; no value is checked
Load(env) ==
    [CollectionName |-> IF Get(env, "COLLECTION_NAME") # <<>>
                        THEN Get(env, "COLLECTION_NAME")
                        ELSE <<"s", "e", "c", "o", "n", "d", "_", "b", "r", "a", "i", "n">>,
     ChunkSize |-> getEnvInt(env, "CHUNK_SIZE", 512),
     ChunkOverlap |-> getEnvInt(env, "CHUNK_OVERLAP", 50)]

\* the environments the engine is started in: each variable unset or set
Environments ==
    {[k \in {"COLLECTION_NAME", "CHUNK_SIZE", "CHUNK_OVERLAP"} |->
        CASE k = "COLLECTION_NAME" -> <<"t">>
          [] k = "CHUNK_SIZE" -> size
          [] OTHER -> overlap] :
     size \in {<<>>, <<"2">>}, overlap \in {<<>>, <<"1">>, <<"2">>, <<"x">>}}

\* main: cfg := config.Load(), then NewHippocampusServer(cfg)
InitConfig ==
    /\ ck = NoCall
    /\ \E env \in Environments : cfg = Load(env)
    /\ collections = EmptyMap
    /\ docs = EmptyMap
    /\ docChunks = EmptyMap
    /\ lastIndexed = 0
    /\ nextUuid = 0
    /\ resp = [op |-> "none"]
    /\ CortexIdle
    /\ EdgeIdle

NextConfig ==
    \/ \E req \in IndexRequests : IndexDocument(req)
    \/ \E req \in DeleteRequests : DeleteDocument(req)

SpecConfig == InitConfig /\ [][NextConfig]_vars

\* C27: a configuration with overlap >= chunk_size is rejected when it is
\* loaded or when the strategy is made, so that FixedSizeChunker.Chunk never
\* runs with overlap >= chunk_size: a document chunked by the fixed-size
\* strategy was chunked with overlap < chunk_size.
C27_OverlapRejected ==
    (/\ resp.op = "IndexDocument"
     /\ resp.req.Content # <<>>
     /\ strategyMap(resp.req.ChunkingStrategy) = "fixed")
        => cfg.ChunkOverlap < cfg.ChunkSize

-----------------------------------------------------------------------------
(* Claims about the fusion scores *)

\* whether each id occurs at most once in a ranked list
OncePerList(list) == \A i, j \in DOMAIN list : list[i].ID = list[j].ID => i = j

\* the 1-based rank of id in a list that holds it at most once, 0 for none
RankOf(list, id) ==
    IF \E i \in DOMAIN list : list[i].ID = id
    THEN CHOOSE i \in DOMAIN list : list[i].ID = id
    ELSE 0

\* the score the fusion formula gives id: over the lists that hold it,
\* w_i / (k + r_i), plus 0.05 at rank 1 and 0.02 at rank 2 or 3
FormulaScore(lists, weights, k, id) ==
    SumSeq([i \in DOMAIN lists |->
              LET r == RankOf(lists[i], id)
              IN  IF r = 0 THEN 0
                  ELSE (weights[i] \div (k + r))
                         + (IF r = 1 THEN 500 ELSE IF r <= 3 THEN 200 ELSE 0)])

\* C28: for ranked lists that hold each id at most once, ReciprocalRankFusion
\* gives every document the sum over the lists that hold it of w_i / (k + r_i),
\* plus 0.05 for each list where it is at rank 1 and 0.02 for each list where
\* it is at rank 2 or 3; HybridSearch fuses with k = 60 and weights 2.0 and
\* 1.0, the full-text list first: its scores are these sums over the largest.
C28_FusionScores ==
    (/\ resp.op = "HybridSearch" /\ resp.err = "OK"
     /\ OncePerList(resp.ftsList) /\ OncePerList(resp.vecList)) =>
        LET lists == <<resp.ftsList, resp.vecList>>
            ids   == ListIds(resp.ftsList) \cup ListIds(resp.vecList)
            Hybrid(id) == FormulaScore(lists, <<20000, 10000>>, 60, id)
        IN  /\ \A k \in {1, 60} : \A w \in {<<20000, 10000>>, <<10000, 30000>>} :
                 \A fused \in ReciprocalRankFusion(lists, w, k) :
                    /\ {fused[i].ID : i \in DOMAIN fused} = ids
                    /\ \A i \in DOMAIN fused :
                         fused[i].Score = FormulaScore(lists, w, k, fused[i].ID)
            /\ \A i \in DOMAIN resp.Results :
                 \E top \in ids :
                    /\ \A id \in ids : Hybrid(id) <= Hybrid(top)
                    /\ resp.Results[i].Score =
                         (Hybrid(resp.Results[i].DocumentId) * 10000) \div Hybrid(top)

\* C28's case: a document at rank 1 of both lists, with 2.0/61 + 1.0/61 and
\* the bonus 0.10, and another document at rank 2 or 3 of a list
C28_Witness ==
    /\ resp.op = "HybridSearch" /\ resp.err = "OK"
    /\ OncePerList(resp.ftsList) /\ OncePerList(resp.vecList)
    /\ Len(resp.ftsList) >= 2 /\ Len(resp.vecList) >= 1
    /\ resp.ftsList[1].ID = resp.vecList[1].ID
    /\ FormulaScore(<<resp.ftsList, resp.vecList>>, <<20000, 10000>>, 60,
                    resp.ftsList[1].ID) = 327 + 163 + 1000
    /\ Len(resp.Results) >= 2
    /\ resp.Results[1].DocumentId = resp.ftsList[1].ID
    /\ resp.Results[2].Score < 10000


-----------------------------------------------------------------------------
(* Claims about the orchestrator's dispatch *)

\* the messages so far that carry a user_query and have been handled
HandledQueries == {i \in 1..Len(received) : received[i].variant = "user_query" /\ Handled(i)}

\* the interaction records made for a query
QueryRecords ==
    LET ForQuery(r) == r.Feedback = ""
    IN  SelectSeq(metricsRecords, ForQuery)

\* C29: a message whose variant is user_query is handled as a user query
\* whether or not its string is empty: once it has been handled, the session's
\* episodic memory holds "User: <query>" for it, an interaction record was
\* made for it, and it was forwarded to the reasoning engine or answered with
\* the placeholder (something beyond the status chunk went downstream or to
\* the caller).
C29_VariantDispatch ==
    /\ Len(QueryRecords) >= Cardinality(HandledQueries)
    /\ \A i \in HandledQueries :
         /\ \E j \in DOMAIN sessions[SessionId].EpisodicMemory :
                sessions[SessionId].EpisodicMemory[j] = <<"User: ">> \o received[i].user_query
         /\ IF wiring.frontal
            THEN Len(EntriesFor(down, i)) = 1
            ELSE Len(SentFor(i)) = 2


-----------------------------------------------------------------------------
(* The metrics store under concurrent use: goroutines call Record, Summary *)
(* and RecentQualityTrend on one Store, as in TestConcurrentAccess.  Every *)
(* statement that reads or writes a field of the Store is a step of its    *)
(* own; s.totalInteractions++ is a load and a store.                       *)

\* the goroutines that write and the goroutines that read
Writers == {"w1", "w2"}
Readers == {"r1"}

\* calls each goroutine makes
MaxCallsEach == 2

\* the n of RecentQualityTrend(n)
TrendWindow == 1

\* the records the writers hand to Record: with a feedback or without one
ConcRecords ==
    {InteractionRecord(SessionId, <<"a">>, ScoreOne \div 2, ScoreOne \div 2, f) :
        f \in {"", "positive"}}

\* a Lock that waits for nobody
CanLockAlways(mu) == TRUE

\* s.mu.Lock() returns once no writer and no reader holds the mutex
CanLock(mu) == ~mu.w /\ mu.r = 0

\* s.mu.RLock() returns once no writer holds the mutex
CanRLock(mu) == ~mu.w

\* Store.RecentQualityTrend(n)
RecentQualityTrend(records, n) ==
    IF Len(records) = 0 THEN 0
    ELSE LET start == IF Len(records) - n < 0 THEN 0 ELSE Len(records) - n
             tail  == SubSeq(records, start + 1, Len(records))
             count == Len(tail)
         IN  IF count = 0 THEN 0
             ELSE SumSeq([i \in 1..count |-> tail[i].ResponseQuality]) \div count

\* a goroutine between two calls
Goroutine ==
    [pc |-> "idle", op |-> "", calls |-> 0, rec |-> InteractionRecord("", <<>>, 0, 0, ""),
     tmp |-> 0, atCall |-> 0, seen |-> 0, total |-> 0,
     summary |-> Summary(NewStore, <<>>), trend |-> 0]

ConcUnchanged ==
    /\ UNCHANGED <<wiring, cx, received, sent, sessions, down, memCalls>>
    /\ UNCHANGED engineVars
    /\ UNCHANGED <<appended, http, gw, kg, storeCalls, rpc, mcp>>

\* a writer calls store.Record(rec)
RecordCall(g, rec) ==
    /\ conc.g[g].pc = "idle"
    /\ conc.g[g].calls < MaxCallsEach
    /\ conc' = [conc EXCEPT !.g[g].pc = "lock", !.g[g].op = "Record", !.g[g].rec = rec,
                            !.passed = Append(@, [by |-> g, rec |-> rec])]
    /\ UNCHANGED <<metricsRecords, metricsCounts>>
    /\ ConcUnchanged

\* Record: s.mu.Lock()
RecordLock(g) ==
    /\ conc.g[g].pc = "lock"
    /\ CanLock(conc.mu)
    /\ conc' = [conc EXCEPT !.mu.w = TRUE, !.g[g].pc = "append"]
    /\ UNCHANGED <<metricsRecords, metricsCounts>>
    /\ ConcUnchanged

\* Record: s.records = append(s.records, rec)
RecordAppend(g) ==
    /\ conc.g[g].pc = "append"
    /\ metricsRecords' = Append(metricsRecords, conc.g[g].rec)
    /\ conc' = [conc EXCEPT !.g[g].pc = "load"]
    /\ UNCHANGED metricsCounts
    /\ ConcUnchanged

\* Record: s.totalInteractions++, the load
RecordLoad(g) ==
    /\ conc.g[g].pc = "load"
    /\ conc' = [conc EXCEPT !.g[g].pc = "store", !.g[g].tmp = metricsCounts.totalInteractions]
    /\ UNCHANGED <<metricsRecords, metricsCounts>>
    /\ ConcUnchanged

\* Record: s.totalInteractions++, the store, and s.feedbackCounts[rec.Feedback]++
RecordStore(g) ==
    /\ conc.g[g].pc = "store"
    /\ metricsCounts' = [StoreRecord(metricsCounts, conc.g[g].rec)
                            EXCEPT !.totalInteractions = conc.g[g].tmp + 1]
    /\ conc' = [conc EXCEPT !.g[g].pc = "unlock"]
    /\ UNCHANGED metricsRecords
    /\ ConcUnchanged

\* Record: the deferred s.mu.Unlock(), and the return
RecordUnlock(g) ==
    /\ conc.g[g].pc = "unlock"
    /\ conc' = [conc EXCEPT !.mu.w = FALSE, !.g[g].pc = "idle", !.g[g].calls = @ + 1,
                            !.g[g].tmp = 0, !.returned = @ + 1]
    /\ UNCHANGED <<metricsRecords, metricsCounts>>
    /\ ConcUnchanged

\* a reader calls store.Summary() or store.RecentQualityTrend(n)
ReadCall(g, op) ==
    /\ conc.g[g].pc = "idle"
    /\ conc.g[g].calls < MaxCallsEach
    /\ conc' = [conc EXCEPT !.g[g].pc = "rlock", !.g[g].op = op,
                            !.g[g].atCall = conc.returned]
    /\ UNCHANGED <<metricsRecords, metricsCounts>>
    /\ ConcUnchanged

\* Summary and RecentQualityTrend: s.mu.RLock()
ReadRLock(g) ==
    /\ conc.g[g].pc = "rlock"
    /\ CanRLock(conc.mu)
    /\ conc' = [conc EXCEPT !.mu.r = @ + 1, !.g[g].pc = "read"]
    /\ UNCHANGED <<metricsRecords, metricsCounts>>
    /\ ConcUnchanged

\* Summary: TotalInteractions: s.totalInteractions
SummaryTotal(g) ==
    /\ conc.g[g].pc = "read"
    /\ conc.g[g].op = "Summary"
    /\ conc' = [conc EXCEPT !.g[g].pc = "rest", !.g[g].total = metricsCounts.totalInteractions]
    /\ UNCHANGED <<metricsRecords, metricsCounts>>
    /\ ConcUnchanged

\* Summary: the copies of the counts, the averages over s.records, the rate
SummaryRest(g) ==
    /\ conc.g[g].pc = "rest"
    /\ conc' = [conc EXCEPT
                  !.g[g].pc = "runlock",
                  !.g[g].seen = Len(metricsRecords),
                  !.g[g].summary = [Summary(metricsCounts, metricsRecords)
                                       EXCEPT !.TotalInteractions = conc.g[g].total]]
    /\ UNCHANGED <<metricsRecords, metricsCounts>>
    /\ ConcUnchanged

\* RecentQualityTrend: the loop over s.records[start:]
TrendRead(g) ==
    /\ conc.g[g].pc = "read"
    /\ conc.g[g].op = "RecentQualityTrend"
    /\ conc' = [conc EXCEPT
                  !.g[g].pc = "runlock",
                  !.g[g].seen = Len(metricsRecords),
                  !.g[g].trend = RecentQualityTrend(metricsRecords, TrendWindow)]
    /\ UNCHANGED <<metricsRecords, metricsCounts>>
    /\ ConcUnchanged

\* Summary and RecentQualityTrend: the deferred s.mu.RUnlock(), and the return
ReadRUnlock(g) ==
    /\ conc.g[g].pc = "runlock"
    /\ conc' = [conc EXCEPT !.mu.r = @ - 1, !.g[g].pc = "idle", !.g[g].calls = @ + 1]
    /\ UNCHANGED <<metricsRecords, metricsCounts>>
    /\ ConcUnchanged

\* TestConcurrentAccess: NewStore and the goroutines before their first call
InitConc ==
    /\ ck = NoCall
    /\ MemIdle
    /\ CortexIdle
    /\ appended = EmptyMap
    /\ http = [pc |-> "idle"]
    /\ gw = [pc |-> "idle"]
    /\ kg = [pc |-> "idle"]
    /\ storeCalls = <<>>
    /\ rpc = [pc |-> "idle"]
    /\ mcp = [pc |-> "idle"]
    /\ conc = [pc |-> "running", mu |-> [w |-> FALSE, r |-> 0],
               g |-> [g \in Writers \cup Readers |-> Goroutine],
               passed |-> <<>>, returned |-> 0]

NextConc ==
    \/ \E g \in Writers, rec \in ConcRecords : RecordCall(g, rec)
    \/ \E g \in Writers : RecordLock(g)
    \/ \E g \in Writers : RecordAppend(g)
    \/ \E g \in Writers : RecordLoad(g)
    \/ \E g \in Writers : RecordStore(g)
    \/ \E g \in Writers : RecordUnlock(g)
    \/ \E g \in Readers, op \in {"Summary", "RecentQualityTrend"} : ReadCall(g, op)
    \/ \E g \in Readers : ReadRLock(g)
    \/ \E g \in Readers : SummaryTotal(g)
    \/ \E g \in Readers : SummaryRest(g)
    \/ \E g \in Readers : TrendRead(g)
    \/ \E g \in Readers : ReadRUnlock(g)

SpecConc == InitConc /\ [][NextConc]_vars


\* how many records of a sequence carry the feedback f
CountOf(seq, f) == Cardinality({i \in DOMAIN seq : seq[i].Feedback = f})

\* the records handed to Record so far, in the order of the calls
PassedRecords == [i \in DOMAIN conc.passed |-> conc.passed[i].rec]

\* a count of the map a Summary returns; a key it does not hold counts 0
CountIn(counts, f) == IF f \in DOMAIN counts THEN counts[f] ELSE 0

\* no goroutine is inside Record
WritersFinished == \A g \in Writers : conc.g[g].pc = "idle"

\* what a reader that has read the store has in hand agrees with the store as
\* it was after its first `seen` records, and misses no Record that had
\* returned when the reader called
ReadIsSnapshot(g) ==
    LET me     == conc.g[g]
        prefix == SubSeq(metricsRecords, 1, me.seen)
    IN  /\ me.atCall <= me.seen
        /\ me.seen <= Len(metricsRecords)
        /\ IF me.op = "Summary"
           THEN /\ me.summary.TotalInteractions = me.seen
                /\ \A f \in {"positive", "negative", "correction"} :
                     CountIn(me.summary.FeedbackCounts, f) = CountOf(prefix, f)
                /\ "" \notin DOMAIN me.summary.FeedbackCounts
           ELSE me.trend = RecentQualityTrend(prefix, TrendWindow)

\* C30: under any interleaving of concurrent Record, Summary and
\* RecentQualityTrend calls no record is lost: the store holds every record
\* of a Record call that has returned and none that was not handed to it;
\* once the writers have finished the store holds exactly the records handed
\* to Record, and Summary reports total_interactions equal to the number of
\* Record calls and each feedback count equal to the number of records that
\* carry that feedback; and what a concurrent reader returns is the state of
\* the store at one moment between its call and its return.
C30_Linearizable ==
    /\ conc.returned <= Len(metricsRecords)
    /\ Len(metricsRecords) <= Len(conc.passed)
    /\ \A f \in {"", "positive", "negative", "correction"} :
         CountOf(metricsRecords, f) <= CountOf(PassedRecords, f)
    /\ WritersFinished =>
         LET summary == Summary(metricsCounts, metricsRecords)
         IN  /\ \A f \in {"", "positive", "negative", "correction"} :
                  CountOf(metricsRecords, f) = CountOf(PassedRecords, f)
             /\ summary.TotalInteractions = Len(conc.passed)
             /\ \A f \in {"positive", "negative", "correction"} :
                  CountIn(summary.FeedbackCounts, f) = CountOf(PassedRecords, f)
    /\ \A g \in Readers :
         (conc.g[g].pc = "runlock" \/ (conc.g[g].pc = "idle" /\ conc.g[g].calls > 0)) =>
             ReadIsSnapshot(g)

\* C30's case: both writers have made their calls and finished, the store
\* took the records in another order than the calls were made, and the
\* reader's Summary ran between two of the writes
C30_Witness ==
    /\ WritersFinished
    /\ Len(metricsRecords) = 4
    /\ metricsRecords # PassedRecords
    /\ CountOf(metricsRecords, "positive") = 2
    /\ conc.g["r1"].pc = "idle"
    /\ conc.g["r1"].op = "Summary"
    /\ conc.g["r1"].calls = 2
    /\ conc.g["r1"].summary.TotalInteractions = 2


-----------------------------------------------------------------------------
(* The gateway's item map under concurrent use.  main starts the forwarder *)
(* of the webhook items and the forwarder of the poller items as           *)
(* goroutines, and the gRPC server runs every RPC handler on a goroutine   *)
(* of its own.  GatewayServer holds no mutex: an access of s.items begins  *)
(* and ends with nothing that keeps the other goroutines out.  A write     *)
(* that overlaps another access is a data race: the Go runtime may stop    *)
(* the process ("concurrent map writes"), and otherwise the write may or   *)
(* may not be in the map afterwards.                                       *)

\* items handed to the writers and reads begun, in one run
MaxItemAccesses == 4

\* the goroutines that write s.items and those that read it
ItemWriters == {"webhookForwarder", "pollerForwarder", "IngestItem", "StreamIngest"}
ItemReaders == {"GetItemStatus", "ListItems"}

\* req.GetItem() of a request without an item
NoItem == [nil |-> TRUE, Id |-> <<>>, Content |-> <<>>, Source |-> ""]

\* the items that arrive: IngestRequest.Item may be nil, the content may be empty
ArrivingItems ==
    {NoItem, [nil |-> FALSE, Id |-> Uuid(0), Content |-> <<>>, Source |-> "generic"],
     [nil |-> FALSE, Id |-> Uuid(1), Content |-> <<"c">>, Source |-> "generic"]}

\* whether the goroutine writes the item it was handed: AddItem always,
\* IngestItem unless the item is nil, StreamIngest unless it is nil or empty
WritesItem(g, item) ==
    CASE g = "IngestItem" -> ~item.nil
      [] g = "StreamIngest" -> ~item.nil /\ item.Content # <<>>
      [] OTHER -> ~item.nil

\* another goroutine is inside an access of s.items
Overlapped(g) == \E o \in (ItemWriters \cup ItemReaders) \ {g} : conc.g[o].pc # "idle"

ItemsUnchanged ==
    /\ UNCHANGED cortexVars
    /\ UNCHANGED engineVars
    /\ UNCHANGED <<appended, http, gw, kg, storeCalls, rpc, mcp>>

\* a writer is handed an item and, unless it rejects it, begins
\* `s.items[item.Id] = item`
ItemWriteBegin(g, item) ==
    /\ ~conc.crashed
    /\ conc.g[g].pc = "idle"
    /\ conc.accesses < MaxItemAccesses
    /\ conc' = IF WritesItem(g, item)
               THEN [conc EXCEPT !.accesses = @ + 1,
                                 !.g = [o \in DOMAIN @ |->
                                          IF o # g /\ conc.g[o].pc # "idle"
                                          THEN [conc.g[o] EXCEPT !.raced = TRUE]
                                          ELSE IF o = g
                                          THEN [pc |-> "writing", item |-> item,
                                                raced |-> Overlapped(g)]
                                          ELSE conc.g[o]]]
               ELSE [conc EXCEPT !.accesses = @ + 1, !.rejected = @ + 1]
    /\ ItemsUnchanged

\* the end of `s.items[item.Id] = item`
ItemWriteEnd(g) ==
    /\ ~conc.crashed
    /\ conc.g[g].pc = "writing"
    /\ LET item    == conc.g[g].item
           left    == [pc |-> "idle", item |-> NoItem, raced |-> FALSE]
           stored  == [conc EXCEPT !.g[g] = left,
                                   !.items = MapPut(@, item.Id, item)]
           lost    == [conc EXCEPT !.g[g] = left]
           stopped == [conc EXCEPT !.crashed = TRUE]
       IN  conc' \in IF conc.g[g].raced THEN {stored, lost, stopped} ELSE {stored}
    /\ ItemsUnchanged

\* GetItemStatus begins `s.items[req.ItemId]`, ListItems `range s.items`
ItemReadBegin(g) ==
    /\ ~conc.crashed
    /\ conc.g[g].pc = "idle"
    /\ conc.accesses < MaxItemAccesses
    /\ conc' = [conc EXCEPT !.accesses = @ + 1,
                            !.g = [o \in DOMAIN @ |->
                                     IF o = g
                                     THEN [pc |-> "reading", item |-> conc.g[g].item,
                                           raced |-> \E w \in ItemWriters :
                                                        conc.g[w].pc = "writing"]
                                     ELSE IF conc.g[o].pc = "writing"
                                     THEN [conc.g[o] EXCEPT !.raced = TRUE]
                                     ELSE conc.g[o]]]
    /\ ItemsUnchanged

\* the end of the read
ItemReadEnd(g) ==
    /\ ~conc.crashed
    /\ conc.g[g].pc = "reading"
    /\ conc' \in IF conc.g[g].raced
                 THEN {[conc EXCEPT !.g[g].pc = "idle", !.g[g].raced = FALSE],
                       [conc EXCEPT !.crashed = TRUE]}
                 ELSE {[conc EXCEPT !.g[g].pc = "idle"]}
    /\ ItemsUnchanged

\* NewGatewayServer, and the goroutines of main before their first access
InitItems ==
    /\ ck = NoCall
    /\ MemIdle
    /\ CortexIdle
    /\ appended = EmptyMap
    /\ http = [pc |-> "idle"]
    /\ gw = [pc |-> "idle"]
    /\ kg = [pc |-> "idle"]
    /\ storeCalls = <<>>
    /\ rpc = [pc |-> "idle"]
    /\ mcp = [pc |-> "idle"]
    /\ conc = [pc |-> "running", items |-> EmptyMap, accesses |-> 0, rejected |-> 0,
               crashed |-> FALSE,
               g |-> [g \in ItemWriters \cup ItemReaders |->
                        [pc |-> "idle",
                         item |-> NoItem,
                         raced |-> FALSE]]]

NextItems ==
    \/ \E g \in ItemWriters, item \in ArrivingItems : ItemWriteBegin(g, item)
    \/ \E g \in ItemWriters : ItemWriteEnd(g)
    \/ \E g \in ItemReaders : ItemReadBegin(g)
    \/ \E g \in ItemReaders : ItemReadEnd(g)

SpecItems == InitItems /\ [][NextItems]_vars

\* C31: the writes of the gateway's item map are serialized: no goroutine
\* writes s.items while another goroutine writes it or reads it.
C31_WritesSerialized ==
    \A w \in ItemWriters, o \in ItemWriters \cup ItemReaders :
        (o # w /\ conc.g[w].pc = "writing") => conc.g[o].pc = "idle"


-----------------------------------------------------------------------------
(* Claims about the edges a graph query returns *)

\* how often the value v stands in a sequence of edges
Copies(edges, v) == Cardinality({i \in DOMAIN edges : edges[i] = v})

\* the stored edge v is one the query q has to return: its predicate matches
\* the filter and one of its ends is at distance below max_hops
Due(v, q) ==
    /\ v \in Walkable(q.relationshipFilter)
    /\ {v.Source, v.Target} \cap Within(q.entity, q.maxHops - 1, q.relationshipFilter) # {}

\* C32: Query(e, h, f) on a known entity returns as edges exactly the stored
\* edges whose predicate matches f and that have an end at undirected
\* distance below h from e, each stored edge once: a self-loop and an edge
\* seen from both of its ends are returned once, and a triple added twice,
\* being two stored edges, is returned twice.
C32_EdgesOnce ==
    (kg.pc = "queried" /\ kg.q.entity \in kg.nodes) =>
        \A v \in Range(kg.edges) \cup Range(kg.res.edges) :
            Copies(kg.res.edges, v) = IF Due(v, kg.q) THEN Copies(kg.edges, v) ELSE 0

\* C32's case: a self-loop at A and the triple (A, p, B) added twice, queried
\* from A over two hops, so that B is expanded and sees its edges again
C32_Witness ==
    /\ kg.pc = "queried"
    /\ kg.q = [entity |-> "A", maxHops |-> 2, relationshipFilter |-> ""]
    /\ Copies(kg.edges, [Source |-> "A", Target |-> "A", Relationship |-> "p"]) = 1
    /\ Copies(kg.edges, [Source |-> "A", Target |-> "B", Relationship |-> "p"]) = 2
    /\ Len(kg.res.edges) = 3


-----------------------------------------------------------------------------
(* The sentence chunker on its own: SemanticChunker.Chunk on any text *)

\* longest text, in characters, handed to the sentence chunker
MaxSentenceText == 6

\* the texts: words of one letter, spaces and sentence terminators
RECURSIVE TextsUpTo(_)
TextsUpTo(n) ==
    IF n = 0 THEN {<<>>}
    ELSE LET shorter == TextsUpTo(n - 1)
         IN  shorter \cup {Append(t, c) : t \in {x \in shorter : Len(x) = n - 1},
                                          c \in {"a", " ", "."}}

SentenceTexts ==
    TextsUpTo(MaxSentenceText) \cup {<<"a", "!", "a", "?", "a", " ", "a", " ", "a", ".">>}

\* a call SemanticChunker{MaxChunkSize: max}.Chunk("doc-1", text, nil); the
\* chunker keeps nothing between calls, so a run makes one call
SentenceCall(max, text) ==
    /\ ck = NoCall
    /\ ck' = [pc |-> "sentences", max |-> max, text |-> text,
              chunks |-> SemanticChunkerChunk(max, <<"d", "1">>, text, EmptyMap, 0)]
    /\ UNCHANGED memVars
    /\ UNCHANGED cortexVars
    /\ UNCHANGED edgeVars

InitSentence ==
    /\ ck = NoCall
    /\ MemIdle
    /\ CortexIdle
    /\ EdgeIdle

NextSentence == \E max \in 1..MaxChunkSize, text \in SentenceTexts : SentenceCall(max, text)

SpecSentence == InitSentence /\ [][NextSentence]_vars

\* the chunks are the sentences, each once and in order: the first chunk is
\* the first k sentences joined by a space, and so on for the rest
RECURSIVE PacksInOrder(_, _)
PacksInOrder(chunks, sentences) ==
    IF chunks = <<>> THEN sentences = <<>>
    ELSE \E k \in 1..Len(sentences) :
            /\ chunks[1].Content = Join(SubSeq(sentences, 1, k), <<" ">>)
            /\ PacksInOrder(Tail(chunks), SubSeq(sentences, k + 1, Len(sentences)))

\* C33: the sentence chunker emits no chunk of more than max_chunk_size
\* tokens unless the chunk is one sentence that alone exceeds max_chunk_size;
\* it emits every sentence once, in document order, and the chunk indexes are
\* 0, 1, 2, ... without gaps.
C33_SentencePacking ==
    ck.pc = "sentences" =>
        LET sentences == splitSentences(ck.text)
        IN  /\ PacksInOrder(ck.chunks, sentences)
            /\ \A i \in DOMAIN ck.chunks :
                 /\ ck.chunks[i].Index = i - 1
                 /\ Len(Fields(ck.chunks[i].Content)) > ck.max =>
                        \E j \in DOMAIN sentences : ck.chunks[i].Content = sentences[j]

\* C33's case: a sentence of three words alone in its chunk at max_chunk_size
\* 2, after a chunk that packs two sentences of one word
C33_Witness ==
    /\ ck.pc = "sentences"
    /\ ck.max = 2
    /\ Len(ck.chunks) = 2
    /\ ck.chunks[1].Content = <<"a", "!", " ", "a", "?">>
    /\ ck.chunks[2].Content = <<"a", " ", "a", " ", "a", ".">>


-----------------------------------------------------------------------------
(* The gateway's GitHub webhook: Handler.handleGitHub with and without a    *)
(* webhook secret.  A body is the text of the request; an HMAC-SHA256 is    *)
(* kept as the pair of the key and the text it was computed over, so that   *)
(* two signatures are equal when key and text are.                          *)

\* GitHub webhooks served by one handler
MaxGitHub == 3

\* "sha256=" + hex(HMAC-SHA256(secret, body))
Signature(secret, body) == <<"sha256=", secret, body>>

\* the bodies: a JSON object, a text that is no JSON, and the empty body
GitHubBodies == {<<"{", "}">>, <<"x">>, <<>>}

\* json.Unmarshal(body, &payload) into a map succeeds
DecodesToObject(body) == body = <<"{", "}">>

\* the requests: X-Hub-Signature-256 unset, made with the handler's secret
\* over this body or over another one, or made with another secret
GitHubRequests ==
    {[signature |-> sg, event |-> ev, body |-> b] :
        sg \in {<<>>} \cup {Signature(k, t) : k \in {"k", "w"}, t \in {<<"{", "}">>, <<"x">>}},
        ev \in {"", "push"},
        b \in GitHubBodies}

\* verifyGitHubSignature: whether the signature is good, and r.Body as it
\* leaves it: unread without a signature header, else replaced by a reader
\* limited to 0 bytes
verifyGitHubSignature(secret, r) ==
    IF r.signature = <<>> THEN [ok |-> FALSE, body |-> r.body]
    ELSE [ok |-> Signature(secret, r.body) = r.signature, body |-> <<>>]

\* handleGitHub
HandleGitHub(r) ==
    /\ gw.nextId < MaxGitHub
    /\ LET verified == IF gw.secret # "" THEN verifyGitHubSignature(gw.secret, r)
                       ELSE [ok |-> TRUE, body |-> r.body]
           item     == InboxItem(Uuid(gw.nextId), <<r.event>>, "github")
           refused(code) ==
               [gw EXCEPT !.req = r, !.enqueued = FALSE,
                          !.resp = [code |-> code, item_id |-> <<>>, status |-> ""]]
       IN  gw' = IF ~verified.ok THEN refused(401)
                 ELSE IF r.event = "" THEN refused(400)
                 ELSE IF ~DecodesToObject(verified.body) THEN refused(400)
                 ELSE [gw EXCEPT !.req = r, !.enqueued = TRUE,
                                 !.nextId = @ + 1,
                                 !.itemChan = enqueueItem(@, item),
                                 !.offered = Append(@, item.Id),
                                 !.resp = [code |-> 202, item_id |-> item.Id,
                                           status |-> "accepted"]]
    /\ GatewayUnchanged

\* NewHandler with the webhook secret of the configuration, or with none
InitGitHub ==
    /\ ck = NoCall
    /\ MemIdle
    /\ CortexIdle
    /\ appended = EmptyMap
    /\ http = [pc |-> "idle"]
    /\ SideIdle
    /\ \E secret \in {"", "k"} :
         gw = [secret |-> secret, itemChan |-> <<>>, items |-> EmptyMap, nextId |-> 0,
               offered |-> <<>>, taken |-> <<>>,
               req |-> [signature |-> <<>>, event |-> "", body |-> <<>>],
               enqueued |-> FALSE,
               resp |-> [code |-> 0, item_id |-> <<>>, status |-> ""]]

NextGitHub ==
    \/ \E r \in GitHubRequests : HandleGitHub(r)
    \/ ForwardItem

SpecGitHub == InitGitHub /\ [][NextGitHub]_vars

\* C34: with a webhook secret configured, a GitHub webhook with a valid
\* X-Hub-Signature-256, an X-GitHub-Event header and a valid JSON body is
\* decoded, enqueued and answered 202 accepted; a request whose signature is
\* missing or wrong is answered 401 and enqueues nothing.
C34_SignedWebhookAccepted ==
    (gw.secret # "" /\ gw.resp.code # 0) =>
        IF gw.req.signature # Signature(gw.secret, gw.req.body)
        THEN gw.resp.code = 401 /\ ~gw.enqueued
        ELSE (gw.req.event # "" /\ DecodesToObject(gw.req.body)) =>
                /\ gw.resp.code = 202
                /\ gw.resp.status = "accepted"
                /\ gw.enqueued


-----------------------------------------------------------------------------
(* The memory engine under a concurrent IndexDocument(d) and               *)
(* DeleteDocument(d).  Each handler runs on a goroutine of its own.  The   *)
(* server's mutex covers the accesses of docChunks and lastIndexed only;   *)
(* the vector store and the text index each take their own lock for one    *)
(* call.  A step is one call on a store, or one section under s.mu.        *)

\* the document both calls name
RaceDoc == <<"d", "1">>

\* the IndexDocument requests of the race: no content, one chunk, two chunks
RaceIndexRequests ==
    {[DocumentId |-> RaceDoc, Content |-> c, ChunkingStrategy |-> "UNSPECIFIED",
      Metadata |-> EmptyMap] : c \in {<<>>, WordsText(1), WordsText(2), WordsText(3)}}

RaceUnchanged ==
    /\ UNCHANGED <<ck, cfg, resp>>
    /\ UNCHANGED cortexVars
    /\ UNCHANGED <<appended, http, gw, kg, storeCalls, rpc, mcp>>

\* IndexDocument up to storeChunkVectors: the call returns an indexError and
\* leaves the stores alone, or the records are upserted
RaceIndexStore(req) ==
    /\ conc.index.pc = "idle"
    /\ conc.index.returned = 0
    /\ \E emb \in EmbedOutcomes(Len(IndexChunking(ServerState, req).chunks)) :
         LET call   == IndexDocumentCall(ServerState, req, emb, TRUE)
             docID  == IndexDocID(ServerState, req)
         IN  /\ call.returns
             /\ nextUuid' = call.s.nextUuid
             /\ collections' = call.s.collections
             /\ conc' = IF call.resp.Success
                        THEN [conc EXCEPT !.index = [pc |-> "map", returned |-> 0,
                                                     Success |-> TRUE,
                                                     chunkIDs |-> call.s.docChunks[docID],
                                                     doc |-> [ID |-> docID,
                                                              Content |-> req.Content,
                                                              Metadata |-> req.Metadata]]]
                        ELSE [conc EXCEPT !.index.returned = 1]
    /\ UNCHANGED <<docChunks, lastIndexed, docs>>
    /\ RaceUnchanged

\* IndexDocument: s.mu.Lock(); s.docChunks[docID] = chunkIDs; s.lastIndexed =
\* time.Now(); s.mu.Unlock()
RaceIndexMap ==
    /\ conc.index.pc = "map"
    /\ docChunks' = MapPut(docChunks, conc.index.doc.ID, conc.index.chunkIDs)
    /\ lastIndexed' = lastIndexed + 1
    /\ conc' = [conc EXCEPT !.index.pc = "text"]
    /\ UNCHANGED <<collections, docs, nextUuid>>
    /\ RaceUnchanged

\* IndexDocument: s.textIdx.Add, and the return
RaceIndexText ==
    /\ conc.index.pc = "text"
    /\ docs' = IndexAdd(docs, cfg.CollectionName, conc.index.doc)
    /\ conc' = [conc EXCEPT !.index.pc = "idle", !.index.returned = 1]
    /\ UNCHANGED <<collections, docChunks, lastIndexed, nextUuid>>
    /\ RaceUnchanged

\* DeleteDocument: s.mu.Lock(); chunkIDs := s.docChunks[id]; delete(s.docChunks,
\* id); s.mu.Unlock()
RaceDeleteTake ==
    /\ conc.delete.pc = "idle"
    /\ conc.delete.returned = 0
    /\ docChunks' = MapDelete(docChunks, RaceDoc)
    /\ conc' = [conc EXCEPT !.delete.pc = "vectors",
                            !.delete.chunkIDs = Get(docChunks, RaceDoc)]
    /\ UNCHANGED <<collections, docs, lastIndexed, nextUuid>>
    /\ RaceUnchanged

\* DeleteDocument: s.store.Delete(collection, chunkIDs) if there are any
RaceDeleteVectors ==
    /\ conc.delete.pc = "vectors"
    /\ collections' = IF Len(conc.delete.chunkIDs) > 0
                      THEN StoreDelete(collections, cfg.CollectionName,
                                       conc.delete.chunkIDs).collections
                      ELSE collections
    /\ conc' = [conc EXCEPT !.delete.pc = "text"]
    /\ UNCHANGED <<docs, docChunks, lastIndexed, nextUuid>>
    /\ RaceUnchanged

\* DeleteDocument: s.textIdx.Delete, and the return
RaceDeleteText ==
    /\ conc.delete.pc = "text"
    /\ docs' = IndexDelete(docs, cfg.CollectionName, RaceDoc)
    /\ conc' = [conc EXCEPT !.delete.pc = "idle", !.delete.returned = 1]
    /\ UNCHANGED <<collections, docChunks, lastIndexed, nextUuid>>
    /\ RaceUnchanged

\* NewServer, and the two handlers before their first step
InitRace ==
    /\ ck = NoCall
    /\ MemIdle
    /\ CortexIdle
    /\ appended = EmptyMap
    /\ http = [pc |-> "idle"]
    /\ gw = [pc |-> "idle"]
    /\ kg = [pc |-> "idle"]
    /\ storeCalls = <<>>
    /\ rpc = [pc |-> "idle"]
    /\ mcp = [pc |-> "idle"]
    /\ conc = [pc |-> "running",
               index |-> [pc |-> "idle", returned |-> 0, Success |-> FALSE,
                          chunkIDs |-> <<>>,
                          doc |-> [ID |-> RaceDoc, Content |-> <<>>, Metadata |-> EmptyMap]],
               delete |-> [pc |-> "idle", returned |-> 0, chunkIDs |-> <<>>]]

NextRace ==
    \/ \E req \in RaceIndexRequests : RaceIndexStore(req)
    \/ RaceIndexMap
    \/ RaceIndexText
    \/ RaceDeleteTake
    \/ RaceDeleteVectors
    \/ RaceDeleteText

SpecRace == InitRace /\ [][NextRace]_vars

\* the ids of the vectors of document d in the collection
VectorsOf(d) ==
    LET coll == IF cfg.CollectionName \in DOMAIN collections
                THEN collections[cfg.CollectionName] ELSE EmptyMap
    IN  {id \in DOMAIN coll : Get(coll[id].Payload, "document_id") = d}

\* C35: once a concurrent IndexDocument(d) and DeleteDocument(d) have both
\* returned, the three stores agree about d: d has an entry in the
\* document_id -> chunk_ids map, its chunks are in the vector store and d is
\* in the text index, or none of the three holds; and whatever vectors of d
\* there are, are named by the map, so that a later DeleteDocument(d) removes
\* them.
C35_StoresAgree ==
    (conc.index.returned = 1 /\ conc.delete.returned = 1) =>
        LET mapped  == RaceDoc \in DOMAIN docChunks
            vectors == VectorsOf(RaceDoc) # {}
            text    == IndexKey(cfg.CollectionName, RaceDoc) \in DOMAIN docs
        IN  /\ \/ mapped /\ vectors /\ text
               \/ ~mapped /\ ~vectors /\ ~text
            /\ VectorsOf(RaceDoc) \subseteq Range(Get(docChunks, RaceDoc))


-----------------------------------------------------------------------------
(* Streams that begin at the same time with the same session id.  Every     *)
(* StreamThoughtProcess runs on a goroutine of its own.  Manager.Get and    *)
(* Manager.Create each hold the manager's lock for one call, and            *)
(* AddEpisodicMemory holds the session's; nothing is held between the Get   *)
(* and the Create of a stream.  A Session object is its place in `objects`, *)
(* the manager's map is the place `mapped` (0: the id is not in the map).   *)

\* the streams, and the user queries each sends
Streams == {"t1", "t2"}
MaxQueries == 2

StreamsUnchanged ==
    /\ UNCHANGED cortexVars
    /\ UNCHANGED engineVars
    /\ UNCHANGED <<appended, http, gw, kg, storeCalls, rpc, mcp>>

\* the first message has arrived: `sess, exists := s.sessionMgr.Get(sessionID)`
StreamGet(t) ==
    /\ conc.g[t].pc = "first"
    /\ conc' = [conc EXCEPT !.g[t].pc = IF conc.mapped # 0 THEN "process" ELSE "create",
                            !.g[t].sess = conc.mapped]
    /\ StreamsUnchanged

\* `if !exists { sess = s.sessionMgr.Create(sessionID, "default-user") }`
StreamCreate(t) ==
    /\ conc.g[t].pc = "create"
    /\ conc' = [conc EXCEPT !.objects = Append(@, [ID |-> SessionId, UserID |-> "default-user",
                                                   EpisodicMemory |-> <<>>]),
                            !.mapped = Len(conc.objects) + 1,
                            !.g[t].pc = "process",
                            !.g[t].sess = Len(conc.objects) + 1]
    /\ StreamsUnchanged

\* handleUserQuery on a message of the stream:
\* sess.AddEpisodicMemory("User: " + query)
StreamQuery(t, query) ==
    /\ conc.g[t].pc = "process"
    /\ conc.g[t].queries < MaxQueries
    /\ conc' = [conc EXCEPT
                  !.objects[conc.g[t].sess].EpisodicMemory =
                      AddEpisodicMemory(@, <<"User: ">> \o query),
                  !.entries = Append(@, <<"User: ">> \o query),
                  !.g[t].queries = @ + 1]
    /\ StreamsUnchanged

\* the caller closes the stream: Recv returns io.EOF
StreamEOF(t) ==
    /\ conc.g[t].pc = "process"
    /\ conc' = [conc EXCEPT !.g[t].pc = "returned"]
    /\ StreamsUnchanged

\* session.NewManager, and the streams with their first message received
InitStreams ==
    /\ ck = NoCall
    /\ MemIdle
    /\ CortexIdle
    /\ appended = EmptyMap
    /\ http = [pc |-> "idle"]
    /\ gw = [pc |-> "idle"]
    /\ kg = [pc |-> "idle"]
    /\ storeCalls = <<>>
    /\ rpc = [pc |-> "idle"]
    /\ mcp = [pc |-> "idle"]
    /\ conc = [pc |-> "running", objects |-> <<>>, mapped |-> 0, entries |-> <<>>,
               g |-> [t \in Streams |-> [pc |-> "first", sess |-> 0, queries |-> 0]]]

NextStreams ==
    \/ \E t \in Streams : StreamGet(t)
    \/ \E t \in Streams : StreamCreate(t)
    \/ \E t \in Streams, query \in {<<"a">>, <<"b">>} : StreamQuery(t, query)
    \/ \E t \in Streams : StreamEOF(t)

SpecStreams == InitStreams /\ [][NextStreams]_vars

\* C36: for streams whose first messages bear the same new session id one
\* Session object is made; every "User: <query>" entry appended by any of
\* the streams is in the session the manager returns for the id (the cap of
\* 50 is not reached), and no stream appends to a Session object that the
\* manager does not map.
C36_OneSession ==
    /\ Len(conc.objects) <= 1
    /\ conc.mapped # 0 => conc.objects[conc.mapped].EpisodicMemory = conc.entries
    /\ \A t \in Streams : conc.g[t].pc = "process" => conc.g[t].sess = conc.mapped


\* the 1-based rank of the best-ranked entry of id in a list, 0 for none
BestRank(list, id) ==
    IF \E i \in DOMAIN list : list[i].ID = id
    THEN CHOOSE i \in DOMAIN list :
            list[i].ID = id /\ \A j \in DOMAIN list : list[j].ID = id => i <= j
    ELSE 0

\* the score of id when each list counts it once, at its best rank
BestRankScore(lists, weights, k, id) ==
    SumSeq([i \in DOMAIN lists |->
              LET r == BestRank(lists[i], id)
              IN  IF r = 0 THEN 0
                  ELSE (weights[i] \div (k + r))
                         + (IF r = 1 THEN 500 ELSE IF r <= 3 THEN 200 ELSE 0)])

\* C37: in HybridSearch a document gets from the vector list one
\* reciprocal-rank contribution and at most one top-rank bonus, at the rank of
\* its best-ranked chunk, however many of its chunks are among the vector
\* hits: its fused score is the score of the lists with each document counted
\* once at its best rank.
C37_OneContributionPerDocument ==
    (resp.op = "HybridSearch" /\ resp.err = "OK") =>
        LET lists == <<resp.ftsList, resp.vecList>>
        IN  \A fused \in ReciprocalRankFusion(lists, HybridWeights, RRFDefaultK) :
                \A i \in DOMAIN fused :
                    fused[i].Score = BestRankScore(lists, HybridWeights, RRFDefaultK, fused[i].ID)


-----------------------------------------------------------------------------
(* Claims about the interaction record of a user query *)

\* message i is past the dispatch of processAgentInput
Dispatched(i) ==
    \/ i < Len(received)
    \/ /\ i = Len(received)
       /\ \/ cx.pc \in {"forward", "forwardSend", "relay", "relaySend", "recv", "returned"}
          \/ cx.pc = "failed" /\ cx.err # "sending status"

\* the places on the stream of the user_query messages past the dispatch
DispatchedQueries ==
    LET IsQuery(i) == received[i].variant = "user_query" /\ Dispatched(i)
    IN  SelectSeq([i \in 1..Len(received) |-> i], IsQuery)

\* C38: every user_query message the orchestrator has processed has exactly
\* one interaction record, with feedback unset and response_quality equal to
\* context_relevance, made after the episodic entry "User: <query>" and before
\* the downstream stream is opened (so also when forwarding fails or no
\* reasoning engine is connected); the records are in the order of the
\* messages.
C38_QueryRecordedOnce ==
    /\ Len(QueryRecords) = Len(DispatchedQueries)
    /\ \A k \in DOMAIN DispatchedQueries :
         k \in DOMAIN QueryRecords =>
           LET m == received[DispatchedQueries[k]]
               r == QueryRecords[k]
           IN  /\ r.SessionID = m.SessionId
               /\ r.Query = m.user_query
               /\ r.ResponseQuality = r.ContextRelevance
               /\ \E j \in DOMAIN sessions[m.SessionId].EpisodicMemory :
                      sessions[m.SessionId].EpisodicMemory[j] = <<"User: ">> \o m.user_query
    /\ \A d \in DOMAIN down :
         \E k \in DOMAIN DispatchedQueries :
             DispatchedQueries[k] = down[d].msgNo /\ k \in DOMAIN QueryRecords


\* C39: every webhook request answered 202 "accepted" has its item in the
\* queue or in the gateway's item map (so that a forwarder that keeps
\* draining the queue stores it): no request is reported as accepted while
\* its item is discarded.
C39_AcceptedIsStored ==
    \A i \in DOMAIN gw.offered :
        \/ \E j \in DOMAIN gw.itemChan : gw.itemChan[j].Id = gw.offered[i]
        \/ gw.offered[i] \in DOMAIN gw.items


-----------------------------------------------------------------------------
(* Termination of a streaming completion: the producer goroutine and the   *)
(* handler's loop over the channel, with an engine that emits more outputs *)
(* than the channel buffers.  Recv eventually returns and both goroutines  *)
(* are scheduled: weak fairness of every step of the two                   *)

\* outputs the engine emits on a long stream: one more than the buffer holds
MaxStreamOutputs == 11

\* the outputs of a long stream
StreamOutputs == {ThoughtOutput(SessionId, <<"t">>)}

ProducerRecvLong == ProducerRecvFrom(StreamOutputs, MaxStreamOutputs)

NextStreaming ==
    \/ \E req \in ChatRequests, flusher \in BOOLEAN, d \in DownOutcomes :
            StreamingBegin(req, flusher, d)
    \/ ProducerRecvLong
    \/ ProducerSend
    \/ HandlerWrite
    \/ HandlerFinish
    \/ CancelRequest

SpecStreaming ==
    /\ InitFacade
    /\ [][NextStreaming]_vars
    /\ WF_vars(ProducerRecvLong)
    /\ WF_vars(ProducerSend)
    /\ WF_vars(HandlerWrite)
    /\ WF_vars(HandlerFinish)

\* C40: in every streaming completion the channel is closed exactly once (by
\* streamReasoningEngine before it returns an error, or by the goroutine when
\* it exits, and never otherwise), a goroutine waiting to send gets to send,
\* and the handler returns with the goroutine exited and the channel closed
\* and drained, whatever the number of outputs and whether or not the caller
\* is still there.
C40_StreamingTerminates ==
    /\ [][/\ http.chClosed => http'.chClosed
          /\ (http.producer.pc # "exited" /\ http'.producer.pc = "exited")
                => (~http.chClosed /\ http'.chClosed)
          /\ (~http.chClosed /\ http'.chClosed)
                => (http'.producer.pc = "exited" \/ http'.failed \in {"open", "send"})
          /\ http.producer.pc = "exited" => http'.producer.pc = "exited"]_vars
    /\ (http.producer.pc = "send") ~> (http.producer.pc # "send")
    /\ (http.pc = "range") ~>
           (http.pc = "done" /\ http.chClosed /\ http.ch = <<>>
              /\ http.producer.pc = "exited")

\* C40's case: the caller is gone, the engine has emitted one output more
\* than the channel buffers, every one of them was written, and the handler
\* has returned
C40_Witness ==
    /\ http.pc = "done"
    /\ http.cancelled
    /\ Len(http.stream.outputs) = MaxStreamOutputs
    /\ Len(http.body) = MaxStreamOutputs + 3
    /\ http.body[2].late
    /\ http.chClosed /\ http.producer.pc = "exited"

=============================================================================
